---- MODULE Spec2Model ----
(***************************************************************************)
(* A model of the CIEGL22 inscription pipeline:                            *)
(*   EDCS_Extract.py          get_cleantext (markup normaliser) and        *)
(*                            get_insc_dict (positional field extractor),  *)
(*   Analyse_Inscriptions.py  ignore_duplicates (duplicate resolver),      *)
(*   Find_Migrants.py         get_place_names and get_toponyms (gazetteer  *)
(*                            names and the toponym candidates),           *)
(*                            search_toponyms (the table of migrants),     *)
(*                            create_complete_db (the master table),       *)
(*   Analyse_Inscriptions.py  open_database, add_distance, calc_distance.  *)
(* Python strings are TLA+ strings; positions are 0-based as in the        *)
(* source, and a negative position counts from the end, as Python's does.  *)
(* Every function of the source is an operator computed the way the code   *)
(* computes it; each specification draws the function's input in its       *)
(* initial states and applies the function in one action.                  *)
(***************************************************************************)
EXTENDS Integers, Sequences, FiniteSets, TLC

VARIABLES
    pc,                \* "start" before the modelled call, "done" after it
    text,              \* get_cleantext: the argument
    cleaned,           \* get_cleantext: the value returned
    edcs,              \* ignore_duplicates: the table, in row order
    raised,            \* the exception the call ended with, or "none"
    inscriptions,      \* get_insc_dict: the fragment lists iterated so far
    all_inscriptions,  \* get_insc_dict: the records added so far
    last_insc,         \* get_insc_dict: the locals of the last iteration
    date_from,         \* get_insc_dict: a local no iteration resets (NaN: unbound)
    date_to,           \* get_insc_dict: a local no iteration resets (NaN: unbound)
    names,             \* get_place_names, get_toponyms: the gazetteer row at hand
    toponyms,          \* search_toponyms: the gazetteer table with its toponyms
    migrants,          \* search_toponyms: the table of migrants
    master             \* create_complete_db: the master table

vars == <<pc, text, cleaned, edcs, raised, inscriptions, all_inscriptions,
          last_insc, date_from, date_to, names, toponyms, migrants, master>>

(***************************************************************************)
(* Bounds of the model.                                                    *)
(***************************************************************************)
MaxLen == 4      \* longest enumerated inscription text
MaxRows == 3     \* most rows of an enumerated table
MaxBatch == 2    \* most fragment lists of a batch
MaxName == 4     \* longest enumerated gazetteer name

(***************************************************************************)
(* Python's str operations.                                                *)
(***************************************************************************)
\* np.nan and a number, as values of one shape
NaN == [nan |-> TRUE, val |-> 0]
Num(v) == [nan |-> FALSE, val |-> v]

\* A cell that holds a string, or no string (None, NaN)
NoStr == [nan |-> TRUE, s |-> ""]
Str(s) == [nan |-> FALSE, s |-> s]

\* None where the source returns a string or None (no fragment is "None")
None == "None"

\* s[i] for 0 <= i < len(s)
Char(s, i) == SubSeq(s, i + 1, i + 1)

\* s[i] with Python's negative positions (the caller keeps i in range)
PyChar(s, i) == IF i < 0 THEN Char(s, Len(s) + i) ELSE Char(s, i)

\* s[a:b] for 0 <= a, b (empty when b <= a)
Slice(s, a, b) == SubSeq(s, a + 1, IF b > Len(s) THEN Len(s) ELSE b)

\* s[a:]
SliceFrom(s, a) == SubSeq(s, a + 1, Len(s))

\* s.startswith-style test used as s[:n] == p
HasPrefix(s, p) == Slice(s, 0, Len(p)) = p

\* s.find(p, start): the least position >= start where p occurs, else -1
Find(s, p, start) ==
    LET hits == {i \in start..(Len(s) - Len(p)) : Slice(s, i, i + Len(p)) = p}
    IN  IF hits = {} THEN -1 ELSE CHOOSE i \in hits : \A j \in hits : i <= j

\* p in s
Contains(s, p) == Find(s, p, 0) # -1

\* s.count(c) for one character c
RECURSIVE CountOf(_, _)
CountOf(s, c) ==
    IF s = "" THEN 0
    ELSE (IF SubSeq(s, 1, 1) = c THEN 1 ELSE 0) + CountOf(SubSeq(s, 2, Len(s)), c)

UpperStr == "ABCDEFGHIJKLMNOPQRSTUVWXYZ"
LowerStr == "abcdefghijklmnopqrstuvwxyz"
DigitStr == "0123456789"

CharsOf(s) == {Char(s, i) : i \in 0..(Len(s) - 1)}
UpperSet == CharsOf(UpperStr)
DigitSet == CharsOf(DigitStr)

\* str.isalpha, str.isnumeric, str.isspace on one character
IsAlpha(c) == c \in UpperSet \cup CharsOf(LowerStr)
IsNumeric(c) == c \in DigitSet
IsSpace(c) == c \in {" "}
IsAlnum(c) == IsAlpha(c) \/ IsNumeric(c)

\* str.lower on one character
LowerChar(c) ==
    IF c \in UpperSet THEN Char(LowerStr, Find(UpperStr, c, 0)) ELSE c

RECURSIVE Lower(_)
Lower(s) == IF s = "" THEN "" ELSE LowerChar(Char(s, 0)) \o Lower(SliceFrom(s, 1))

\* s.strip(): leading and trailing whitespace removed
RECURSIVE LStrip(_)
LStrip(s) == IF s # "" /\ IsSpace(Char(s, 0)) THEN LStrip(SliceFrom(s, 1)) ELSE s
RECURSIVE RStrip(_)
RStrip(s) ==
    IF s # "" /\ IsSpace(Char(s, Len(s) - 1))
    THEN RStrip(Slice(s, 0, Len(s) - 1)) ELSE s
Strip(s) == RStrip(LStrip(s))

\* " ".join(s.split()): whitespace runs collapsed to one space, ends trimmed
RECURSIVE Collapse(_, _)
Collapse(s, pendingSpace) ==
    IF s = "" THEN ""
    ELSE IF IsSpace(Char(s, 0)) THEN Collapse(SliceFrom(s, 1), TRUE)
    ELSE (IF pendingSpace THEN " " ELSE "") \o Char(s, 0)
         \o Collapse(SliceFrom(s, 1), FALSE)
JoinSplit(s) == Collapse(LStrip(s), FALSE)

(***************************************************************************)
(* EDCS_Extract.py: missing, correct_text, remove_superficial_letters,     *)
(* get_cleantext.                                                          *)
(***************************************************************************)

\* missing(text, i): the second test reads the bound method text[i].isnumeric
\* without calling it, which is always true
missing(t, i) ==
    /\ i < Len(t) - 2
    /\ \/ PyChar(t, i) = "[" /\ IsNumeric(PyChar(t, i + 1)) /\ PyChar(t, i + 2) = "]"
       \/ PyChar(t, i - 1) = "[" /\ TRUE /\ PyChar(t, i + 1) = "]"
       \/ PyChar(t, i - 2) = "[" /\ IsNumeric(PyChar(t, i - 1)) /\ PyChar(t, i) = "]"

\* The while loop of correct_text and of remove_superficial_letters: the
\* positions of every opening marker, in order, from `opens` on
RECURSIVE OpeningList(_, _, _)
OpeningList(t, mark, opens) ==
    IF opens # -1 /\ opens + 1 < Len(t)
    THEN <<opens>> \o OpeningList(t, mark, Find(t, mark, opens + 1))
    ELSE <<>>

\* range(a, b) copied from t
CopyRange(t, a, b) == IF a < b THEN Slice(t, a, b) ELSE ""

\* The for loop of correct_text from span i on; `closing` is where the
\* previous span ended
RECURSIVE CorrectLoop(_, _, _, _)
CorrectLoop(t, opening_list, i, closing) ==
    IF i > Len(opening_list)
    THEN CopyRange(t, closing, Len(t))
    ELSE LET opens == opening_list[i]
             equals == Find(t, "=", opens)
             closes == Find(t, ">", opens)
         IN  CopyRange(t, closing, opens)
             \o Lower(CopyRange(t, opens + 1, equals))
             \o CorrectLoop(t, opening_list, i + 1, closes + 1)

correct_text(t) == CorrectLoop(t, OpeningList(t, "<", Find(t, "<", 0)), 1, 0)

RECURSIVE SuperficialLoop(_, _, _, _)
SuperficialLoop(t, opening_list, i, closing) ==
    IF i > Len(opening_list)
    THEN CopyRange(t, closing, Len(t))
    ELSE LET opens == opening_list[i]
             closes == Find(t, "}", opens)
         IN  CopyRange(t, closing, opens)
             \o SuperficialLoop(t, opening_list, i + 1, closes + 1)

remove_superficial_letters(t) ==
    SuperficialLoop(t, OpeningList(t, "{", Find(t, "{", 0)), 1, 0)

\* The final loop of get_cleantext from position i on
RECURSIVE FilterFrom(_, _)
FilterFrom(t, i) ==
    IF i >= Len(t) THEN ""
    ELSE (IF IsSpace(Char(t, i)) \/ IsAlpha(Char(t, i)) \/ missing(t, i)
          THEN Char(t, i) ELSE "")
         \o FilterFrom(t, i + 1)

get_cleantext(t) ==
    LET t1 == IF Find(t, "=", 0) # -1 THEN correct_text(t) ELSE t
        t2 == IF Find(t, "{", 0) # -1 THEN remove_superficial_letters(t1) ELSE t1
    IN  JoinSplit(FilterFrom(t2, 0))

(***************************************************************************)
(* The inscription texts get_cleantext is applied to.                      *)
(***************************************************************************)
RECURSIVE Strs(_)
Strs(n) ==
    IF n = 0 THEN {""}
    ELSE LET shorter == Strs(n - 1)
         IN  shorter \cup {s \o c : s \in {x \in shorter : Len(x) = n - 1},
                                     c \in {"A", "b", " ", "<", "=", ">", "{",
                                            "}", "[", "3", "]", "/"}}

Texts ==
    Strs(MaxLen)
    \cup {"AN<TIQVVS=tiqvvs>", "ab{cd}ef", "ab[3]cd", "ab[3]",
          "A{b}A{b}A", "{A{b}A}b", "A{b}[3]{b}A", "A{b}<b="}

(***************************************************************************)
(* SpecClean: one call of get_cleantext on any of the texts.               *)
(***************************************************************************)
InitClean ==
    /\ pc = "start"
    /\ toponyms = <<>>
    /\ migrants = <<>>
    /\ master = <<>>
    /\ text \in Texts
    /\ cleaned = None
    /\ edcs = <<>>
    /\ raised = "none"
    /\ inscriptions = <<>>
    /\ all_inscriptions = <<>>
    /\ last_insc = <<>>
    /\ date_from = NaN
    /\ date_to = NaN
    /\ names = <<>>

CleanText ==
    /\ pc = "start"
    /\ cleaned' = get_cleantext(text)
    /\ pc' = "done"
    /\ UNCHANGED <<toponyms, migrants, master, names, text, edcs, raised, inscriptions, all_inscriptions,
                   last_insc, date_from, date_to>>

NextClean == CleanText

SpecClean == InitClean /\ [][NextClean]_vars

(***************************************************************************)
(* Analyse_Inscriptions.py: ignore_duplicates.                             *)
(*                                                                         *)
(* A row of the table is [label, id, migrant, distance, ignore]: label is  *)
(* the DataFrame's index label (read_csv numbers the rows of the file 0,   *)
(* 1, ...), id stands for the edcs-id (ids compare as the integers do),    *)
(* migrant is 1 or 0 (the column holds 1 or no value), distance is a       *)
(* number of km or NaN.  The column 'Index' is only ever appended to the   *)
(* list `indexes`, whose values are never read, and is left out.           *)
(***************************************************************************)
NaNDist == [nan |-> TRUE, km |-> 0]
Km(n) == [nan |-> FALSE, km |-> n]

\* a < b on floats: false whenever either side is NaN
FloatLt(a, b) == ~a.nan /\ ~b.nan /\ a.km < b.km

\* min(distances) as Python computes it: the first item, replaced by each
\* later item that compares less than it
RECURSIVE PyMinFrom(_, _, _)
PyMinFrom(ds, k, cur) ==
    IF k > Len(ds) THEN cur
    ELSE PyMinFrom(ds, k + 1, IF FloatLt(ds[k], cur) THEN ds[k] ELSE cur)
PyMin(ds) == PyMinFrom(ds, 2, ds[1])

\* distances.index(shortest), 0-based: the first item that is, or equals,
\* shortest (a NaN minimum is the first item itself)
ListIndex(ds, shortest) ==
    (CHOOSE k \in 1..Len(ds) :
        /\ ds[k] = shortest
        /\ \A j \in 1..(k - 1) : ds[j] # shortest) - 1

\* edcs.sort_values(by='edcs-id'): rows ordered by id; rows with equal ids
\* keep their order (numpy sorts arrays this short by insertion)
SortRank(tab, k) ==
    Cardinality({j \in 1..Len(tab) :
        \/ tab[j].id < tab[k].id
        \/ tab[j].id = tab[k].id /\ j < k})
sort_values(tab) ==
    [r \in 1..Len(tab) |-> tab[CHOOSE k \in 1..Len(tab) : SortRank(tab, k) = r - 1]]

\* series.iloc[pos]: the row at 0-based position pos, a negative pos counting
\* from the end; IndexError outside -len .. len - 1
ILocInRange(tab, pos) == pos >= -Len(tab) /\ pos <= Len(tab) - 1
ILoc(tab, pos) == IF pos < 0 THEN tab[Len(tab) + pos + 1] ELSE tab[pos + 1]

\* One of the two while loops: the distances of the rows at positions
\* idx + step, idx + 2 * step, ... appended to acc as long as their id equals
\* elem's; IndexError when a position leaves the table
RECURSIVE ScanNeighbours(_, _, _, _, _, _)
ScanNeighbours(tab, elem, idx, step, n, acc) ==
    LET pos == idx + step * n
    IN  IF ~ILocInRange(tab, pos) THEN [raised |-> "IndexError", distances |-> acc]
        ELSE IF elem.id = ILoc(tab, pos).id
        THEN ScanNeighbours(tab, elem, idx, step, n + 1,
                            Append(acc, ILoc(tab, pos).distance))
        ELSE [raised |-> "none", distances |-> acc]

\* A variant of SetIgnore that deletes the marked rows instead of flagging them
SetIgnore_deletes_rows(tab, marked) ==
    SelectSeq(tab, LAMBDA row : row.label \notin marked)

\* edcs.at[i, 'ignore'] = 1 for every i of `marked`: i is a label
SetIgnore(tab, marked) ==
    [r \in 1..Len(tab) |->
        IF tab[r].label \in marked THEN [tab[r] EXCEPT !.ignore = 1] ELSE tab[r]]

\* The positions of `indexes` that the last loop marks: every one but that
\* of the shortest distance
MarkedPositions(distances) ==
    IF Len(distances) > 1
    THEN (0..(Len(distances) - 1)) \ {ListIndex(distances, PyMin(distances))}
    ELSE {}

\* The body of the iterrows loop for the row at position r (1-based) of the
\* sorted table; the result is [tab, raised]
DuplicatesOfRow(tab, r) ==
    LET elem == tab[r]
        idx == elem.label
        back == ScanNeighbours(tab, elem, idx, -1, 1, <<elem.distance>>)
        forth == ScanNeighbours(tab, elem, idx, 1, 1, back.distances)
    IN  IF elem.migrant # 1 THEN [tab |-> tab, raised |-> "none"]
        ELSE IF back.raised # "none" THEN [tab |-> tab, raised |-> back.raised]
        ELSE IF forth.raised # "none" THEN [tab |-> tab, raised |-> forth.raised]
        ELSE [tab |-> SetIgnore(tab, MarkedPositions(forth.distances)),
              raised |-> "none"]

RECURSIVE IterRows(_, _)
IterRows(tab, r) ==
    IF r > Len(tab) THEN [tab |-> tab, raised |-> "none"]
    ELSE LET step == DuplicatesOfRow(tab, r)
         IN  IF step.raised # "none" THEN step ELSE IterRows(step.tab, r + 1)

ignore_duplicates(tab) ==
    IterRows([r \in 1..Len(tab) |-> [sort_values(tab)[r] EXCEPT !.ignore = 0]], 1)

(***************************************************************************)
(* The tables ignore_duplicates is applied to: rows in file order, a       *)
(* distance only on migrant rows (add_distance computes one only where     *)
(* origo_LatLong is set).                                                  *)
(***************************************************************************)
Ids == 1..3
RowInputs ==
    {[id |-> i, migrant |-> 0, distance |-> NaNDist] : i \in Ids}
    \cup {[id |-> i, migrant |-> 1, distance |-> d] : i \in Ids,
              d \in {NaNDist, Km(12), Km(30), Km(50)}}

TableOf(rows) ==
    [k \in 1..Len(rows) |->
        [label |-> k - 1, id |-> rows[k].id, migrant |-> rows[k].migrant,
         distance |-> rows[k].distance, ignore |-> 0]]


(***************************************************************************)
(* SpecDup: one call of ignore_duplicates on any of the tables.  The call  *)
(* works in place: after an exception the table is as the loop left it.    *)
(***************************************************************************)
InitDup ==
    /\ pc = "start"
    /\ toponyms = <<>>
    /\ migrants = <<>>
    /\ master = <<>>
    /\ \E n \in 1..MaxRows : \E rows \in [1..n -> RowInputs] : edcs = TableOf(rows)
    /\ raised = "none"
    /\ text = ""
    /\ cleaned = None
    /\ inscriptions = <<>>
    /\ all_inscriptions = <<>>
    /\ last_insc = <<>>
    /\ date_from = NaN
    /\ date_to = NaN
    /\ names = <<>>

IgnoreDuplicates ==
    /\ pc = "start"
    /\ LET out == ignore_duplicates(edcs)
       IN  /\ edcs' = out.tab
           /\ raised' = out.raised
    /\ pc' = "done"
    /\ UNCHANGED <<toponyms, migrants, master, names, text, cleaned, inscriptions, all_inscriptions, last_insc,
                   date_from, date_to>>

NextDup == IgnoreDuplicates

SpecDup == InitDup /\ [][NextDup]_vars

(***************************************************************************)
(* EDCS_Extract.py: Python's list and number operations used by            *)
(* get_insc_dict.                                                          *)
(***************************************************************************)

\* insc[i] for a list, 0-based, a negative i counting from the end
ItemInRange(l, i) == i >= -Len(l) /\ i <= Len(l) - 1
Item(l, i) == IF i < 0 THEN l[Len(l) + i + 1] ELSE l[i + 1]

\* s.split(sep), re.split('[...]', s): the pieces of s between separators
RECURSIVE SplitFrom(_, _, _, _)
SplitFrom(s, seps, i, cur) ==
    IF i >= Len(s) THEN <<cur>>
    ELSE IF Char(s, i) \in seps THEN <<cur>> \o SplitFrom(s, seps, i + 1, "")
    ELSE SplitFrom(s, seps, i + 1, cur \o Char(s, i))
Split(s, seps) == SplitFrom(s, seps, 0, "")

\* sep.join(parts)
RECURSIVE Join(_, _)
Join(parts, sep) ==
    IF Len(parts) = 0 THEN ""
    ELSE IF Len(parts) = 1 THEN parts[1]
    ELSE parts[1] \o sep \o Join(Tail(parts), sep)

\* list(dict.fromkeys(l)): the first occurrence of every item, in order
RECURSIVE Dedup(_)
Dedup(l) ==
    IF l = <<>> THEN <<>>
    ELSE LET front == Dedup(SubSeq(l, 1, Len(l) - 1))
             x == l[Len(l)]
         IN  IF \E k \in 1..Len(front) : front[k] = x THEN front
             ELSE Append(front, x)

DigitValue(c) == Find(DigitStr, c, 0)

\* The value of a string of digits and underscores, read from the left
RECURSIVE DigitsValue(_, _)
DigitsValue(s, acc) ==
    IF s = "" THEN acc
    ELSE IF Char(s, 0) = "_" THEN DigitsValue(SliceFrom(s, 1), acc)
    ELSE DigitsValue(SliceFrom(s, 1), 10 * acc + DigitValue(Char(s, 0)))

\* The digits of an int literal: digits, single underscores between them
IsIntDigits(s) ==
    /\ s # ""
    /\ \A i \in 0..(Len(s) - 1) : IsNumeric(Char(s, i)) \/ Char(s, i) = "_"
    /\ IsNumeric(Char(s, 0)) /\ IsNumeric(Char(s, Len(s) - 1))
    /\ ~Contains(s, "__")

\* int(s): [ok, val]; ok is false where Python raises ValueError.  Whitespace
\* around the literal is ignored, one sign may lead it.
PyInt(s) ==
    LET t == Strip(s)
        signed == t # "" /\ Char(t, 0) \in {"+", "-"}
        digits == IF signed THEN SliceFrom(t, 1) ELSE t
    IN  IF IsIntDigits(digits)
        THEN [ok |-> TRUE,
              val |-> IF signed /\ Char(t, 0) = "-"
                      THEN 0 - DigitsValue(digits, 0) ELSE DigitsValue(digits, 0)]
        ELSE [ok |-> FALSE, val |-> 0]

\* min and max of a non-empty list of integers
MinOf(l) == CHOOSE m \in {l[k] : k \in 1..Len(l)} : \A k \in 1..Len(l) : m <= l[k]
MaxOf(l) == CHOOSE m \in {l[k] : k \in 1..Len(l)} : \A k \in 1..Len(l) : m >= l[k]

(***************************************************************************)
(* EDCS_Extract.py: get_findspot, get_lat, get_long, get_province,         *)
(* search_province.                                                        *)
(***************************************************************************)

\* The for loop of get_findspot: None when the text ends before a '<'
RECURSIVE FindspotFrom(_, _, _)
FindspotFrom(place, i, result) ==
    IF i >= Len(place) THEN None
    ELSE IF Char(place, i) = "<" THEN result
    ELSE FindspotFrom(place, i + 1, result \o Char(place, i))

get_findspot(place) ==
    LET start == Find(place, ">", 0)
    IN  IF start = -1 THEN "error" ELSE FindspotFrom(place, start + 1, "")

\* float(result) succeeds: an optional sign, digits with at most one point
IsFloatLiteral(s) ==
    LET signed == s # "" /\ Char(s, 0) = "-"
        body == IF signed THEN SliceFrom(s, 1) ELSE s
    IN  /\ CountOf(body, ".") <= 1
        /\ CountOf(body, "-") = 0
        /\ \E i \in 0..(Len(body) - 1) : IsNumeric(Char(body, i))

\* The value of get_lat and get_long: NaN, a float (written as the literal it
\* was read from), the string collected when float() raises, or None when
\* the text ends inside the number
CoordinateFrom(place, i) ==
    LET stops == {j \in i..(Len(place) - 1) :
                     ~(IsNumeric(Char(place, j)) \/ Char(place, j) \in {".", "-"})}
        stop == CHOOSE j \in stops : \A o \in stops : j <= o
        collected == Slice(place, i, stop)
    IN  IF stops = {} THEN [kind |-> "None", s |-> ""]
        ELSE IF IsFloatLiteral(collected) THEN [kind |-> "float", s |-> collected]
        ELSE [kind |-> "str", s |-> collected]

NaNCoordinate == [kind |-> "nan", s |-> ""]

get_lat(place) ==
    LET start == Find(place, "latitude=", 0)
    IN  IF start = -1 THEN NaNCoordinate ELSE CoordinateFrom(place, start + 9)

get_long(place) ==
    LET start == Find(place, "longitude=", 0)
    IN  IF start = -1 THEN NaNCoordinate ELSE CoordinateFrom(place, start + 10)

RECURSIVE ProvinceFrom(_, _, _)
ProvinceFrom(place, i, result) ==
    IF i >= Len(place) THEN result
    ELSE IF IsAlnum(Char(place, i)) \/ IsSpace(Char(place, i)) \/ Char(place, i) = "/"
    THEN ProvinceFrom(place, i + 1, result \o Char(place, i))
    ELSE result

get_province(place) ==
    LET start == Find(place, "provinz=", 0)
    IN  IF start = -1 THEN "error" ELSE ProvinceFrom(place, start + 8, "")

province_list ==
    {"Achaia", "Baetica", "Galatia", "Mauretania Tingitana",
     "Regnum Bospori", "Aegyptus", "Barbaricum", "Raetia",
     "Gallia Narbonensis", "Mesopotamia", "Roma", "Asia",
     "Aemilia / Regio VIII", "Belgica", "Germania inferior",
     "Moesia inferior", "Samnium / Regio IV", "Armenia",
     "Africa proconsularis", "Britannia", "Germania superior",
     "Moesia superior", "Sardinia", "Alpes Cottiae", "Dacia",
     "Bruttium et Lucania / Regio III", "Hispania citerior",
     "Noricum", "Sicilia", "Alpes Graiae", "Cappadocia",
     "Italia", "Numidia", "Syria", "Alpes Maritimae", "Arabia",
     "Cilicia", "Latium et Campania / Regio I", "Palaestina",
     "Thracia", "Alpes Poeninae", "Corsica", "Macedonia",
     "Liguria / Regio IX", "Pannonia inferior", "Dalmatia",
     "Transpadana / Regio XI", "Apulia et Calabria / Regio II",
     "Creta et Cyrenaica", "Lugudunensis", "Pannonia superior",
     "Umbria / Regio VI", "Aquitania", "AquitanicaCyprus",
     "Lusitania", "Picenum / Regio V", "Pontus et Bithynia",
     "Venetia et Histria / Regio X", "Provincia incerta",
     "Lycia et Pamphylia", "Etruria / Regio VII",
     "Mauretania Caesariensis", "Aquitani(c)a"}

\* The test of one fragment in search_province
IsProvinceFragment(elem) ==
    \/ elem \in province_list
    \/ /\ Contains(elem, "|")
       /\ LET parts == Split(elem, {"|"})
          IN  \E k \in 1..Len(parts) : Strip(parts[k]) \in province_list

search_province(insc) ==
    LET hits == {k \in 1..Len(insc) : IsProvinceFragment(insc[k])}
    IN  IF hits = {} THEN "n/a"
        ELSE insc[CHOOSE k \in hits : \A o \in hits : k <= o]

(***************************************************************************)
(* EDCS_Extract.py: get_insc_dict.                                         *)
(***************************************************************************)
keyword_list ==
    {"carmina", "signacula", "Augusti/Augustae",
     "praenomen et nomen", "defixiones", "signacula medicorum",
     "liberti/libertae", "reges", "diplomata militaria",
     "termini", "milites", "sacerdotes christiani",
     "inscriptiones christianae", "tesserae nummulariae",
     "mulieres", "sacerdotes pagani", "leges",
     "tituli fabricationis", "nomen singulare", "servi/servae",
     "litterae erasae ", "tituli honorarii",
     "officium/professio", "seviri Augustales",
     "litterae in litura", "tituli operum", "ordo decurionum",
     "tria nomina", "miliaria", "tituli possessionis",
     "ordo equester", "viri", "senatus consulta", "tituli sacri",
     "ordo senatorius", "sigilla impressa", "tituli sepulcrales"}

material_list ==
    {"aes", "cyprum", "lignum", "os", "sucineus", "argentum",
     "ferrum", "musivum", "plumbum", "tectorium", "aurum",
     "gemma", "opus figlinae", "rupes", "textum", "corium",
     "lapis", "orichalcum", "steatitis", "vitrum"}

\* The locals of get_insc_dict before the first iteration has bound them:
\* each field holds a value of the kind the loop binds it to (NaN: unbound)
Unbound ==
    [insc |-> <<>>, outcome |-> "unbound",
     id_unknown |-> TRUE, edcs_id |-> "", edcs_id_i |-> NaN,
     publication |-> "", time_from |-> NaN, time_to |-> NaN,
     findspot |-> "", findspot_i |-> NaN,
     find_lat |-> NaNCoordinate, find_long |-> NaNCoordinate,
     province |-> "", text |-> "", text_i |-> NaN, cleantext |-> "",
     keywords |-> "", keywords_i |-> NaN,
     material |-> "", material_i |-> NaN,
     place |-> "", place_i |-> NaN,
     dump |-> <<>>, error |-> FALSE,
     date_from |-> NaN, date_to |-> NaN]

\* The head of the loop body without the lines that rebind time_from and
\* time_to
ResetLocals_keeps_times(frame, insc) ==
    [frame EXCEPT
        !.insc = insc, !.outcome = "running",
        !.id_unknown = TRUE, !.edcs_id = "", !.edcs_id_i = NaN,
        !.publication = "n/a",
        !.findspot = "n/a", !.findspot_i = NaN,
        !.find_lat = NaNCoordinate, !.find_long = NaNCoordinate,
        !.province = "n/a", !.text = "n/a", !.text_i = NaN,
        !.cleantext = "n/a",
        !.keywords = "n/a", !.keywords_i = NaN,
        !.material = "n/a", !.material_i = NaN,
        !.place = "n/a", !.place_i = NaN,
        !.dump = insc, !.error = FALSE]

\* The head of the loop body: `for insc in inscriptions` binds insc, and the
\* assignments that follow rebind the locals of the iteration, whatever the
\* iteration before left in them (edcs_id: "" stands for NaN); date_from and
\* date_to are not among them and keep what they hold
ResetLocals(frame, insc) ==
    [frame EXCEPT
        !.insc = insc, !.outcome = "running",
        !.id_unknown = TRUE, !.edcs_id = "", !.edcs_id_i = NaN,
        !.publication = "n/a", !.time_from = NaN, !.time_to = NaN,
        !.findspot = "n/a", !.findspot_i = NaN,
        !.find_lat = NaNCoordinate, !.find_long = NaNCoordinate,
        !.province = "n/a", !.text = "n/a", !.text_i = NaN,
        !.cleantext = "n/a",
        !.keywords = "n/a", !.keywords_i = NaN,
        !.material = "n/a", !.material_i = NaN,
        !.place = "n/a", !.place_i = NaN,
        !.dump = insc, !.error = FALSE]

\* The branch `elif ';' in insc[i]`: every element of the split fragment is
\* tested in turn, a keyword term before a material term
RECURSIVE SemicolonParts(_, _, _, _)
SemicolonParts(f, elements, n, i) ==
    IF n > Len(elements) THEN f
    ELSE LET elem == elements[n]
             g == IF elem \in keyword_list
                  THEN [f EXCEPT !.keywords = Join(elements, ", "),
                                 !.keywords_i = Num(i)]
                  ELSE IF elem \in material_list
                  THEN [f EXCEPT !.material = Join(elements, ", "),
                                 !.material_i = Num(i)]
                  ELSE f
         IN  SemicolonParts(g, elements, n + 1, i)

\* One pass of the first loop: fragment i of insc
ClassifyFragment(f, insc, i) ==
    LET frag == Item(insc, i)
    IN  IF f.id_unknown /\ HasPrefix(frag, "EDCS-")
        THEN [f EXCEPT !.edcs_id = frag, !.edcs_id_i = Num(i), !.id_unknown = FALSE]
        ELSE IF HasPrefix(frag, "<!--")
        THEN [f EXCEPT !.place = frag, !.place_i = Num(i)]
        ELSE IF frag \in keyword_list
        THEN [f EXCEPT !.keywords = frag, !.keywords_i = Num(i)]
        ELSE IF frag \in material_list
        THEN [f EXCEPT !.material = frag, !.material_i = Num(i)]
        ELSE IF Contains(frag, ";")
        THEN SemicolonParts(f, Split(frag, {";"}), 1, i)
        ELSE f

RECURSIVE ClassifyFrom(_, _, _)
ClassifyFrom(f, insc, i) ==
    IF i >= Len(insc) THEN f
    ELSE ClassifyFrom(ClassifyFragment(f, insc, i), insc, i + 1)

\* The first loop, on the locals f as the head of the body left them
Classify(f) == ClassifyFrom(f, f.insc, 0)

\* edcs_id_i == 3 with time_to read from the fragment time_from is read from
DatesOfThree_same_fragment(f) ==
    LET from == PyInt(JoinSplit(Item(f.insc, 1)))
        to == PyInt(JoinSplit(Item(f.insc, 1)))
    IN  [f EXCEPT !.publication = Item(f.insc, 0),
                  !.time_from = IF from.ok THEN Num(from.val) ELSE @,
                  !.time_to = IF to.ok THEN Num(to.val) ELSE @,
                  !.error = @ \/ ~from.ok \/ ~to.ok]

\* edcs_id_i == 3: a fragment that fails to parse sets error and leaves
\* time_from or time_to as it was
DatesOfThree(f) ==
    LET from == PyInt(JoinSplit(Item(f.insc, 1)))
        to == PyInt(JoinSplit(Item(f.insc, 2)))
    IN  [f EXCEPT !.publication = Item(f.insc, 0),
                  !.time_from = IF from.ok THEN Num(from.val) ELSE @,
                  !.time_to = IF to.ok THEN Num(to.val) ELSE @,
                  !.error = @ \/ ~from.ok \/ ~to.ok]

\* nums: the stripped fragments 1 .. k - 1 holding a digit, without repeats
RECURSIVE NumsFrom(_, _, _)
NumsFrom(insc, j, k) ==
    IF j >= k THEN <<>>
    ELSE LET elem == Strip(Item(insc, j))
         IN  (IF \E n \in 0..(Len(elem) - 1) : IsNumeric(Char(elem, n))
              THEN <<elem>> ELSE <<>>) \o NumsFrom(insc, j + 1, k)

\* The parts of one split number parsed from the left up to the first that
\* fails: [error, dates]
RECURSIVE ParseParts(_, _, _)
ParseParts(parts, n, dates) ==
    IF n > Len(parts) THEN [error |-> FALSE, dates |-> dates]
    ELSE LET v == PyInt(parts[n])
         IN  IF v.ok THEN ParseParts(parts, n + 1, Append(dates, v.val))
             ELSE [error |-> TRUE, dates |-> dates]

\* The loop over nums: [error, dates]
RECURSIVE ParseNums(_, _, _, _)
ParseNums(nums, n, error, dates) ==
    IF n > Len(nums) THEN [error |-> error, dates |-> dates]
    ELSE LET v == PyInt(nums[n])
             split == ParseParts(Split(nums[n], {",", ";", ":"}), 1, dates)
         IN  IF v.ok THEN ParseNums(nums, n + 1, error, Append(dates, v.val))
             ELSE ParseNums(nums, n + 1, error \/ split.error, split.dates)

\* edcs_id_i >= 5 and odd: the minimum and maximum are bound to date_from and
\* date_to (min of no dates raises ValueError); time_from and time_to are
\* left as they were
DatesOfMany(f, k) ==
    LET parsed == ParseNums(Dedup(NumsFrom(f.insc, 1, k)), 1, f.error, <<>>)
    IN  IF parsed.error
        THEN [f EXCEPT !.publication = "error", !.error = TRUE]
        ELSE IF parsed.dates = <<>>
        THEN [f EXCEPT !.publication = Item(f.insc, 0),
                       !.outcome = "ValueError"]
        ELSE [f EXCEPT !.publication = Item(f.insc, 0),
                       !.date_from = Num(MinOf(parsed.dates)),
                       !.date_to = Num(MaxOf(parsed.dates))]

\* "getting publication, date_from and date_to" for the identifier at index k
PublicationAndDates(f, k) ==
    IF k = 1 THEN [f EXCEPT !.publication = Item(f.insc, 0)]
    ELSE IF k = 3 THEN DatesOfThree(f)
    ELSE IF k >= 5 /\ k % 2 = 1 THEN DatesOfMany(f, k)
    ELSE [f EXCEPT !.publication = "error"]

\* "get text & cleantext": the index of the text fragment
text_index(f) ==
    IF ~f.keywords_i.nan THEN f.keywords_i.val - 1
    ELSE IF ~f.material_i.nan THEN f.material_i.val - 1
    ELSE IF ~f.place_i.nan THEN f.place_i.val + 2
    ELSE -1

\* "get text & cleantext": text_i is bound before insc[text_i] is read, and
\* the index may lie outside the list
GetText(f, text_i) ==
    IF ~ItemInRange(f.insc, text_i)
    THEN [f EXCEPT !.text_i = Num(text_i), !.outcome = "IndexError"]
    ELSE [f EXCEPT !.text_i = Num(text_i),
                   !.text = Item(f.insc, text_i),
                   !.cleantext = IF Item(f.insc, text_i) # "n/a"
                                 THEN get_cleantext(Item(f.insc, text_i))
                                 ELSE @]

\* The else branch of "get findspot": the fragment before the text fragment,
\* dropped when the same text stands at any other index of the list
NeighbourFindspot(f, findspot_i) ==
    LET findspot == IF Len(f.insc) > 1 THEN Item(f.insc, findspot_i)
                    ELSE f.findspot
    IN  [f EXCEPT
            !.province = search_province(f.insc),
            !.findspot_i = IF Len(f.insc) > 1 THEN Num(findspot_i) ELSE @,
            !.findspot = IF \E idx \in 0..(Len(f.insc) - 1) :
                               /\ Item(f.insc, idx) = findspot
                               /\ ~(Len(f.insc) > 1 /\ idx = findspot_i)
                          THEN "n/a" ELSE findspot]

\* "get findspot (incl. province and GPS-coordinates), if known"
GetFindspot(f) ==
    IF Contains(f.place, "<!--")
    THEN [f EXCEPT !.findspot = get_findspot(f.place),
                   !.find_lat = get_lat(f.place),
                   !.find_long = get_long(f.place),
                   !.province = get_province(f.place)]
    ELSE NeighbourFindspot(f, f.text_i.val - 1)

\* "designate all unknown findspots as n/a"
UnknownAsNA(f) ==
    IF f.findspot = "?" \/ f.findspot = "" THEN [f EXCEPT !.findspot = "n/a"]
    ELSE f

\* "create dictionary for inscription"
inscription_data(f) ==
    [publication |-> f.publication, edcs_id |-> f.edcs_id,
     time_from |-> f.time_from, time_to |-> f.time_to,
     province |-> f.province, findspot |-> f.findspot,
     find_lat |-> f.find_lat, find_long |-> f.find_long,
     text |-> f.text, cleantext |-> f.cleantext,
     keywords |-> f.keywords, material |-> f.material, dump |-> f.dump]

\* "check if the EDCS-ID is only a reference in a comment", then the record
DiscardOrAdd(f) ==
    IF /\ f.place = "n/a" /\ f.keywords = "n/a" /\ f.material = "n/a"
       /\ f.findspot = "n/a" /\ f.province = "n/a"
       /\ f.time_from.nan /\ f.time_to.nan
    THEN [locals |-> [f EXCEPT !.outcome = "discarded"], record |-> <<>>]
    ELSE [locals |-> [f EXCEPT !.outcome = "added"],
          record |-> <<inscription_data(f)>>]

\* What follows "get text & cleantext"
TextAndFindspot(f) ==
    IF f.outcome # "running" THEN [locals |-> f, record |-> <<>>]
    ELSE DiscardOrAdd(UnknownAsNA(GetFindspot(f)))

\* What follows "getting publication, date_from and date_to"
AfterDates(f) ==
    IF f.outcome # "running" THEN [locals |-> f, record |-> <<>>]
    ELSE TextAndFindspot(GetText(f, text_index(f)))

\* What follows the first loop: "check if EDCS-ID has been found"
AfterClassify(f) ==
    IF f.id_unknown
    THEN [locals |-> [f EXCEPT !.outcome = "skipped"], record |-> <<>>]
    ELSE AfterDates(PublicationAndDates(f, f.edcs_id_i.val))

(***************************************************************************)
(* The fragment lists get_insc_dict is applied to: what stands in front of *)
(* the identifier, the identifier, what follows it; and one list without   *)
(* an identifier.                                                          *)
(***************************************************************************)
CommentFragment == "<!--latitude=41.9&longitude=12.5&provinz=Roma>Ostia</a>"

Heads ==
    {<<>>,
     <<"PubX">>,
     <<"PubX", "120">>,
     <<"PubX", "120", "180">>,
     <<"PubX", "12a", "180">>,
     <<"PubX", "150;120", "x", "180", "y">>,
     <<"PubX", "12a", "x", "180", "y">>,
     <<"PubX", "a", "b", "c", "d">>}

Tails ==
    {<<>>,
     <<"someword", "vir">>,
     <<"someword", "viri">>,
     <<"Roma", "Ostia", "someword", "lapis">>,
     <<CommentFragment, "x", "A<B=b>c">>,
     <<"someword", CommentFragment>>,
     <<"?", "someword", "viri">>,
     <<"Ostia", "someword", "viri", "x", "leges">>,
     <<"someword", "viri;leges">>}

FragmentLists ==
    {h \o <<"EDCS-000001">> \o t : h \in Heads, t \in Tails}
    \cup {<<"stray comment">>}

(***************************************************************************)
(* SpecExtract: one call of get_insc_dict; each step is one iteration of   *)
(* its loop over the batch, on any fragment list.  An exception ends the   *)
(* call.                                                                   *)
(***************************************************************************)
InitExtract ==
    /\ pc = "start"
    /\ toponyms = <<>>
    /\ migrants = <<>>
    /\ master = <<>>
    /\ inscriptions = <<>>
    /\ all_inscriptions = <<>>
    /\ last_insc = <<>>
    /\ date_from = NaN
    /\ date_to = NaN
    /\ names = <<>>
    /\ raised = "none"
    /\ text = ""
    /\ cleaned = None
    /\ edcs = <<>>

\* The loop body below its head, tabulated over the locals the head leaves
\* on a fragment list in the first iteration or in the one after it
IterationTable ==
    [start \in UNION {{ResetLocals(left, l) : l \in FragmentLists} :
                         left \in {AfterClassify(Classify(
                                        ResetLocals(Unbound, l))).locals :
                                       l \in FragmentLists}}
        |-> AfterClassify(Classify(start))]

\* One iteration of `for insc in inscriptions` entered with the locals
\* `frame`: the head of the body, then the first loop and what follows it.
\* [locals, record]; the outcome in locals is "skipped" (no identifier),
\* "discarded" (only a reference in a comment), "added", or the exception
\* raised
Iteration(insc, frame) ==
    IF ResetLocals(frame, insc) \in DOMAIN IterationTable
    THEN IterationTable[ResetLocals(frame, insc)]
    ELSE AfterClassify(Classify(ResetLocals(frame, insc)))

\* The loop's step with the outcome `it` of the iteration
Step(insc, it) ==
    /\ inscriptions' = Append(inscriptions, insc)
    /\ last_insc' = <<it.locals>>
    /\ all_inscriptions' = all_inscriptions \o it.record
    /\ raised' = IF it.locals.outcome \in {"ValueError", "IndexError"}
                 THEN it.locals.outcome ELSE "none"
    /\ date_from' = it.locals.date_from
    /\ date_to' = it.locals.date_to

\* An iteration starts from the locals the iteration before it left, the
\* first from locals that are not bound
ProcessInsc(insc) ==
    /\ pc = "start"
    /\ raised = "none"
    /\ Len(inscriptions) < MaxBatch
    /\ Step(insc, Iteration(insc, IF last_insc = <<>> THEN Unbound
                                   ELSE last_insc[1]))
    /\ UNCHANGED <<toponyms, migrants, master, names, pc, text, cleaned, edcs>>

ReturnDict ==
    /\ pc = "start"
    /\ raised = "none"
    /\ pc' = "done"
    /\ UNCHANGED <<toponyms, migrants, master, names, text, cleaned, edcs, raised, inscriptions, all_inscriptions,
                   last_insc, date_from, date_to>>

NextExtract == (\E insc \in FragmentLists : ProcessInsc(insc)) \/ ReturnDict

SpecExtract == InitExtract /\ [][NextExtract]_vars

(***************************************************************************)
(* Find_Migrants.py: get_toponyms.                                         *)
(***************************************************************************)

\* All strings over an alphabet up to length n
RECURSIVE StrsOver(_, _)
StrsOver(alphabet, n) ==
    IF n = 0 THEN {""}
    ELSE LET shorter == StrsOver(alphabet, n - 1)
         IN  shorter \cup {s \o c : s \in {x \in shorter : Len(x) = n - 1},
                                     c \in alphabet}

\* elem.split(): the words between runs of whitespace
Words(s) == IF JoinSplit(s) = "" THEN <<>> ELSE Split(JoinSplit(s), {" "})

\* s[:j], a negative j counting from the end
PrefixTo(s, j) ==
    IF j >= 0 THEN Slice(s, 0, j)
    ELSE IF Len(s) + j > 0 THEN Slice(s, 0, Len(s) + j) ELSE ""

vowels == CharsOf("aeiou")

\* `while location[i - 1] in vowels`: the further toponyms, or the IndexError
\* of reading location[i - 1] in front of the string's first character
RECURSIVE WhileVowel(_, _)
WhileVowel(location, i) ==
    IF i - 1 < -Len(location)
    THEN [raised |-> "IndexError", toponym_list |-> <<>>]
    ELSE IF PyChar(location, i - 1) \in vowels
    THEN [raised |-> WhileVowel(location, i - 1).raised,
          toponym_list |-> <<PrefixTo(location, i - 1) \o "ensis">>
                           \o WhileVowel(location, i - 1).toponym_list]
    ELSE [raised |-> "none", toponym_list |-> <<>>]

\* The position of the first vowel met from the end of the word, -1 if none
LastVowel(location) ==
    LET at == {i \in 0..(Len(location) - 1) : Char(location, i) \in vowels}
    IN  IF at = {} THEN -1 ELSE CHOOSE i \in at : \A j \in at : j <= i

\* The loop over reversed(location) for the last vowel at i
ToponymsAt(location, i) ==
    IF i = -1 \/ i <= 2
    THEN [raised |-> "none", toponym_list |-> <<>>]
    ELSE [raised |-> WhileVowel(location, i).raised,
          toponym_list |-> <<Slice(location, 0, i) \o "ensis">>
                           \o WhileVowel(location, i).toponym_list]

\* The body of `for location in locations`
ToponymsOfWord(location) == ToponymsAt(location, LastVowel(location))

\* `for location in locations` from word n on
RECURSIVE ToponymsFrom(_, _)
ToponymsFrom(locations, n) ==
    IF n > Len(locations) THEN [raised |-> "none", toponym_list |-> <<>>]
    ELSE IF ToponymsOfWord(locations[n]).raised # "none"
    THEN ToponymsOfWord(locations[n])
    ELSE [raised |-> ToponymsFrom(locations, n + 1).raised,
          toponym_list |-> ToponymsOfWord(locations[n]).toponym_list
                           \o ToponymsFrom(locations, n + 1).toponym_list]

\* get_toponyms on one row: [raised, toponym_list, toponyms]
get_toponyms(elem) ==
    [raised |-> ToponymsFrom(Words(elem), 1).raised,
     toponym_list |-> ToponymsFrom(Words(elem), 1).toponym_list,
     toponyms |-> Join(ToponymsFrom(Words(elem), 1).toponym_list, ", ")]

(***************************************************************************)
(* The place names get_toponyms is applied to.                             *)
(***************************************************************************)
PlaceNames ==
    StrsOver({"a", "i", "T", "h", " "}, MaxName)
    \cup {"Narbo", "Thia", "Heraea", "Narbo, Narbona", "Roma Thia"}

\* A gazetteer row with its place names
Row(placenames) ==
    [placenames |-> placenames, toponym_list |-> <<>>, toponyms |-> None]

(***************************************************************************)
(* SpecToponyms: one call of get_toponyms on a table of one row.           *)
(***************************************************************************)
InitToponyms ==
    /\ pc = "start"
    /\ toponyms = <<>>
    /\ migrants = <<>>
    /\ master = <<>>
    /\ names \in {Row(p) : p \in PlaceNames}
    /\ raised = "none"
    /\ text = ""
    /\ cleaned = None
    /\ edcs = <<>>
    /\ inscriptions = <<>>
    /\ all_inscriptions = <<>>
    /\ last_insc = <<>>
    /\ date_from = NaN
    /\ date_to = NaN

\* The table of toponyms tabulated over the place names
ToponymTable == [p \in PlaceNames |-> get_toponyms(p)]

\* An exception leaves the local toponym_list as the loop filled it and
\* the cell toponyms unwritten
GetToponyms ==
    /\ pc = "start"
    /\ pc' = "done"
    /\ raised' = ToponymTable[names.placenames].raised
    /\ names' = [names EXCEPT
                    !.toponym_list = ToponymTable[names.placenames].toponym_list,
                    !.toponyms = IF ToponymTable[names.placenames].raised # "none"
                                 THEN names.toponyms
                                 ELSE ToponymTable[names.placenames].toponyms]
    /\ UNCHANGED <<toponyms, migrants, master, text, cleaned, edcs, inscriptions, all_inscriptions,
                   last_insc, date_from, date_to>>

NextToponyms == GetToponyms

SpecToponyms == InitToponyms /\ [][NextToponyms]_vars

(***************************************************************************)
(* Find_Migrants.py: no_tags, no_brackets, get_place_names.                *)
(***************************************************************************)

\* s[a:b] for a >= 0 and any b >= 0: empty when b <= a
PySlice(s, a, b) == IF b <= a THEN "" ELSE Slice(s, a, b)

\* s.replace(old, new): every occurrence from the left, none overlapping; the
\* source passes an empty `old` only together with an empty `new`, which
\* leaves s as it is
RECURSIVE Replace(_, _, _)
Replace(s, old, new) ==
    IF old = "" \/ Len(s) < Len(old) THEN s
    ELSE IF HasPrefix(s, old)
    THEN new \o Replace(SliceFrom(s, Len(old)), old, new)
    ELSE Char(s, 0) \o Replace(SliceFrom(s, 1), old, new)

\* no_tags: [hangs, elem].  The closing bracket is looked for from the start
\* of the string; when it is missing or stands in front of the opening one,
\* `remove` is empty, the string stays as it is and the loop never ends
RECURSIVE no_tags(_)
no_tags(elem) ==
    IF Find(elem, "<", 0) = -1 THEN [hangs |-> FALSE, elem |-> elem]
    ELSE IF Find(elem, ">", 0) < Find(elem, "<", 0)
    THEN [hangs |-> TRUE, elem |-> elem]
    ELSE no_tags(Replace(elem,
                         PySlice(elem, Find(elem, "<", 0), Find(elem, ">", 0) + 1),
                         ""))

\* The first loop of no_brackets from the parenthesis at `opening` on:
\* [elem, variants]
RECURSIVE BracketLoop(_, _, _)
BracketNext(elem, opening, variants) ==
    BracketLoop(elem, Find(elem, "(", opening + 1), variants)
BracketStep(elem, opening, variants, remove) ==
    IF remove = "(...)"
    THEN BracketNext(Replace(elem, remove, ""), opening, variants)
    ELSE IF opening > 0 /\ IsSpace(Char(elem, opening - 1))
    THEN BracketNext(Replace(elem, remove, ""), opening, variants)
    ELSE BracketNext(elem, opening, TRUE)
BracketLoop(elem, opening, variants) ==
    IF opening = -1 THEN [elem |-> elem, variants |-> variants]
    ELSE BracketStep(elem, opening, variants,
                     PySlice(elem, opening, Find(elem, ")", opening) + 1))

\* The while loop over one word with parentheses: the reading without the
\* group at `opening` and the reading with every parenthesis dropped
RECURSIVE WordLoop(_, _)
WordLoop(word, opening) ==
    IF opening = -1 THEN <<>>
    ELSE <<Replace(word, PySlice(word, opening, Find(word, ")", opening) + 1), ""),
           Replace(Replace(word, "(", ""), ")", "")>>
         \o WordLoop(word, Find(word, "(", opening + 1))

ReadingsOfWord(word) ==
    IF Find(word, "(", 0) = -1 THEN <<word>>
    ELSE WordLoop(word, Find(word, "(", 0))

RECURSIVE ReadingsFrom(_, _)
ReadingsFrom(words, n) ==
    IF n > Len(words) THEN <<>>
    ELSE ReadingsOfWord(words[n]) \o ReadingsFrom(words, n + 1)

\* What follows the first loop of no_brackets
BracketResult(elem, variants) ==
    IF variants THEN Join(ReadingsFrom(Split(elem, {" "}), 1), " ") ELSE elem

BracketTidy(r) ==
    BracketResult(Replace(Replace(r.elem, "  ", " "), " ,", ","), r.variants)

no_brackets(elem) == BracketTidy(BracketLoop(elem, Find(elem, "(", 0), FALSE))

\* x.replace("  ", " ").strip()
TidyName(x) == Strip(Replace(x, "  ", " "))

\* The names of one comma-separated part: split on '/' when it has one
NamesOfLoc(loc) ==
    IF Find(loc, "/", 0) = -1 THEN {TidyName(loc)}
    ELSE {TidyName(Split(loc, {"/"})[n]) : n \in 1..Len(Split(loc, {"/"}))}

\* The set place_names of a cleaned name: split on ',' only when it has one
place_names_of(elem) ==
    IF Find(elem, ",", 0) = -1 THEN {TidyName(elem)}
    ELSE UNION {NamesOfLoc(Split(elem, {","})[n]) : n \in 1..Len(Split(elem, {","}))}

\* The row is of a relevant period: a letter of "HRL" in timePeriods, or
\* timePeriods missing (a float, whose iteration raises TypeError)
relevant(time_period) ==
    \/ time_period.nan
    \/ \E i \in 0..(Len(time_period.s) - 1) : Char(time_period.s, i) \in CharsOf("HRL")

\* The orders in which ", ".join may read a set
Orders(S) ==
    {q \in [1..Cardinality(S) -> S] : \A i, j \in 1..Cardinality(S) :
                                          i # j => q[i] # q[j]}

\* get_place_names on the name of one relevant row: [hangs, place_names]
get_place_names(elem) ==
    [hangs |-> no_tags(elem).hangs,
     place_names |-> IF no_tags(elem).hangs THEN {}
                     ELSE place_names_of(no_brackets(
                              Replace(no_tags(elem).elem, "?", "")))]

(***************************************************************************)
(* The gazetteer names get_place_names is applied to.                      *)
(***************************************************************************)
NamesTransliterated ==
    StrsOver({"A", "b", " ", ",", "/", "(", ")", "<", ">"}, MaxName)
    \cup {"Narbo", "A/b, b", "Ab (...)", "Ab(b)", "<i>Ab</i>", "Ab?, b",
          "Ab (b)/A", "A(b)(A)"}

(***************************************************************************)
(* SpecPlaceNames: one call of get_place_names on a table of one row.      *)
(* pc = "loop" is the call that never leaves the loop of no_tags.          *)
(***************************************************************************)
InitPlaceNames ==
    /\ pc = "start"
    /\ toponyms = <<>>
    /\ migrants = <<>>
    /\ master = <<>>
    \* timePeriods: missing, of a relevant period, of no relevant period
    /\ names \in {[nameTransliterated |-> n, timePeriods |-> t,
                   place_names |-> {}, placenames |-> None] :
                  n \in NamesTransliterated,
                  t \in {NoStr, Str("HR"), Str("M")}}
    /\ raised = "none"
    /\ text = ""
    /\ cleaned = None
    /\ edcs = <<>>
    /\ inscriptions = <<>>
    /\ all_inscriptions = <<>>
    /\ last_insc = <<>>
    /\ date_from = NaN
    /\ date_to = NaN

\* get_place_names tabulated over the names
PlaceNameTable == [n \in NamesTransliterated |-> get_place_names(n)]

\* A row of no relevant period is passed over
SkipRow ==
    /\ pc = "start"
    /\ ~relevant(names.timePeriods)
    /\ pc' = "done"
    /\ UNCHANGED <<toponyms, migrants, master, names, raised, text, cleaned, edcs, inscriptions,
                   all_inscriptions, last_insc, date_from, date_to>>

\* The loop of no_tags does not end
LoopInNoTags ==
    /\ pc = "start"
    /\ relevant(names.timePeriods)
    /\ PlaceNameTable[names.nameTransliterated].hangs
    /\ pc' = "loop"
    /\ UNCHANGED <<toponyms, migrants, master, names, raised, text, cleaned, edcs, inscriptions,
                   all_inscriptions, last_insc, date_from, date_to>>

\* The row gets its place names, joined in one of the orders of the set
AddPlaceNames ==
    /\ pc = "start"
    /\ relevant(names.timePeriods)
    /\ ~PlaceNameTable[names.nameTransliterated].hangs
    /\ \E order \in Orders(PlaceNameTable[names.nameTransliterated].place_names) :
          names' = [names EXCEPT
                      !.place_names = PlaceNameTable[names.nameTransliterated].place_names,
                      !.placenames = Join(order, ", ")]
    /\ pc' = "done"
    /\ UNCHANGED <<toponyms, migrants, master, raised, text, cleaned, edcs, inscriptions,
                   all_inscriptions, last_insc, date_from, date_to>>

NextPlaceNames == SkipRow \/ LoopInNoTags \/ AddPlaceNames

SpecPlaceNames == InitPlaceNames /\ [][NextPlaceNames]_vars

(***************************************************************************)
(* Find_Migrants.py: search_toponyms, create_complete_db.                  *)
(* Analyse_Inscriptions.py: open_database, add_distance, calc_distance.    *)
(*                                                                         *)
(* A cell that holds a string or no string (None, NaN) is [nan, s].  A     *)
(* latitude or longitude is a number of hundredths of a degree, or NaN.    *)
(* A table is the sequence of its rows in row order; a row is a record of  *)
(* its columns and, in the tables built here, of `label`, the label the    *)
(* row has in the index of the table (no column).  A row of the table of   *)
(* migrants has the columns of the inscription it was copied from and      *)
(* origo, origo_lat, origo_long, origo_LatLong, path, pid and migrant.     *)
(***************************************************************************)
\* [top.strip() for top in tops.split(",")]
Candidates(tops) ==
    [k \in 1..Len(Split(tops, {","})) |-> Strip(Split(tops, {","})[k])]

\* The row added for a match: edcs.iloc[i] with the columns of the place
MigrantRow(insc, place) ==
    [origo |-> Str(place.title), origo_lat |-> place.reprLat,
     origo_long |-> place.reprLong, origo_LatLong |-> place.reprLatLong,
     path |-> Str(place.path), pid |-> Str(place.pid), migrant |-> 1] @@ insc

\* `for i, text in enumerate(edcs['cleantext'])` from row i on, for the
\* candidate `top` of `place`: a row for every text that is a string and
\* holds the candidate
RECURSIVE MatchesOfCandidate(_, _, _, _)
MatchesOfCandidate(inscs, place, top, i) ==
    IF i > Len(inscs) THEN <<>>
    ELSE (IF ~inscs[i].cleantext.nan /\ Contains(inscs[i].cleantext.s, top)
          THEN <<MigrantRow(inscs[i], place)>> ELSE <<>>)
         \o MatchesOfCandidate(inscs, place, top, i + 1)

\* `for top in tops` from candidate k on
RECURSIVE MatchesOfCandidates(_, _, _, _)
MatchesOfCandidates(inscs, place, tops, k) ==
    IF k > Len(tops) THEN <<>>
    ELSE MatchesOfCandidate(inscs, place, tops[k], 1)
         \o MatchesOfCandidates(inscs, place, tops, k + 1)

\* `for idx, tops in enumerate(toponyms['toponyms'])` from row idx on: a
\* cell that is no string, or a string of fewer than 6 characters, is passed
\* over
RECURSIVE MatchesFrom(_, _, _)
MatchesFrom(inscs, places, idx) ==
    IF idx > Len(places) THEN <<>>
    ELSE (IF places[idx].toponyms.nan \/ Len(places[idx].toponyms.s) < 6 THEN <<>>
          ELSE MatchesOfCandidates(inscs, places[idx],
                                   Candidates(places[idx].toponyms.s), 1))
         \o MatchesFrom(inscs, places, idx + 1)

\* A variant of drop_duplicates that drops a row only when the row just
\* above it is its duplicate
RECURSIVE drop_duplicates_adjacent(_, _)
drop_duplicates_adjacent(rows, k) ==
    IF k > Len(rows) THEN <<>>
    ELSE (IF /\ k > 1
             /\ rows[k - 1].edcs_id = rows[k].edcs_id
             /\ rows[k - 1].origo_LatLong = rows[k].origo_LatLong
          THEN <<>> ELSE <<rows[k]>>)
         \o drop_duplicates_adjacent(rows, k + 1)

\* migrants.drop_duplicates(subset=['edcs-id', 'origo_LatLong']) from row k
\* on: the first row of every (edcs-id, origo_LatLong) pair is kept, two
\* missing values counting as equal
RECURSIVE drop_duplicates(_, _)
drop_duplicates(rows, k) ==
    IF k > Len(rows) THEN <<>>
    ELSE (IF \E j \in 1..(k - 1) : /\ rows[j].edcs_id = rows[k].edcs_id
                                   /\ rows[j].origo_LatLong = rows[k].origo_LatLong
          THEN <<>> ELSE <<rows[k]>>)
         \o drop_duplicates(rows, k + 1)

\* pd.concat(..., ignore_index=True), pd.read_csv: the rows are labelled
\* 0, 1, ... in row order
ignore_index(rows) == [k \in 1..Len(rows) |-> ("label" :> k - 1) @@ rows[k]]

\* The rows dropped leave their labels unused
search_toponyms(inscs, places) ==
    drop_duplicates(ignore_index(MatchesFrom(inscs, places, 1)), 1)

\* master.loc[label, :] = insc, which `master.at[label] = insc` comes to
\* where pandas takes a series as the value: the row of that label is
\* written over, and a row of a label the table has not is added below.
\* The row written has the cells of `insc` in the columns of the table and
\* NaN in a column `insc` has not (an empty table of migrants has the
\* columns of the inscriptions).
SetRow(tab, label, insc) ==
    [r \in 1..(IF \E k \in 1..Len(tab) : tab[k].label = label
               THEN Len(tab) ELSE Len(tab) + 1) |->
        IF r <= Len(tab) /\ tab[r].label # label THEN tab[r]
        ELSE [c \in {"label"} \cup (IF Len(tab) = 0 THEN DOMAIN insc
                                    ELSE DOMAIN tab[1]) |->
                 IF c = "label" THEN label
                 ELSE IF c \in DOMAIN insc THEN insc[c]
                 ELSE IF c \in {"origo_lat", "origo_long"} THEN NaN
                 ELSE NoStr]]

\* `for index, insc in edcs.iterrows()` from row i on: an inscription whose
\* edcs-id is in no row of master is written at the label len(master.index)
RECURSIVE AddInscriptions(_, _, _)
AddInscriptions(tab, inscs, i) ==
    IF i > Len(inscs) THEN tab
    ELSE IF \E r \in 1..Len(tab) : tab[r].edcs_id = inscs[i].edcs_id
    THEN AddInscriptions(tab, inscs, i + 1)
    ELSE AddInscriptions(SetRow(tab, Len(tab), inscs[i]), inscs, i + 1)

\* a < b on two strings of the characters of an edcs-id, from position i
\* on: the order of the code points of the first characters that differ
RECURSIVE StrLt(_, _, _)
StrLt(a, b, i) ==
    IF i >= Len(b) THEN FALSE
    ELSE IF i >= Len(a) THEN TRUE
    ELSE IF Char(a, i) = Char(b, i) THEN StrLt(a, b, i + 1)
    ELSE Find("-0123456789CDES", Char(a, i), 0)
             < Find("-0123456789CDES", Char(b, i), 0)

\* master.sort_values(by='edcs-id'): rows ordered by edcs-id; rows with
\* equal ids keep their order (numpy sorts arrays this short by insertion)
sort_values_edcs_id(tab) ==
    LET rank == [k \in 1..Len(tab) |->
                    Cardinality({j \in 1..Len(tab) :
                        \/ StrLt(tab[j].edcs_id, tab[k].edcs_id, 0)
                        \/ tab[j].edcs_id = tab[k].edcs_id /\ j < k})]
    IN  [r \in 1..Len(tab) |->
            tab[CHOOSE k \in 1..Len(tab) : rank[k] = r - 1]]

\* master.drop('Index', axis=1) and the sort, on a table of one row or
\* more: KeyError when the table has no column Index (the name of the
\* index, "Index", is no column)
DropIndexAndSort(tab) ==
    IF \E r \in 1..Len(tab) : "Index" \notin DOMAIN tab[r]
    THEN [raised |-> "KeyError", master |-> <<>>]
    ELSE [raised |-> "none",
          master |-> sort_values_edcs_id(
              [r \in 1..Len(tab) |->
                  [c \in DOMAIN tab[r] \ {"Index"} |-> tab[r][c]]])]

\* create_complete_db.  `at` is what the pandas at hand does with
\* `master.at[label] = insc`, a row label alone and a series: "loc" where
\* it passes them on to master.loc[label, :], "InvalidIndexError" where it
\* takes a scalar only and raises.  The statement is reached when some
\* inscription is in no row of migrants.
create_complete_db(inscs, migs, at) ==
    IF /\ at = "InvalidIndexError"
       /\ \E i \in 1..Len(inscs) :
              \A r \in 1..Len(migs) : migs[r].edcs_id # inscs[i].edcs_id
    THEN [raised |-> "InvalidIndexError", master |-> <<>>]
    ELSE DropIndexAndSort(AddInscriptions(migs, inscs, 1))

\* The table open_database reads from the file save_database wrote with
\* index=True: the labels are the column Index, and the rows are labelled
\* anew.  Every cell of the tables built here is read as it was written (no
\* string is empty).
open_database(tab) ==
    ignore_index([r \in 1..Len(tab) |-> ("Index" :> tab[r].label) @@ tab[r]])

\* hs.haversine(findspot, origo) for two points of one meridian: the arc of
\* the difference in latitude on a sphere of radius 6371.0088 km, which is
\* 1111.951 m for a hundredth of a degree, in millimetres; NaN when a
\* coordinate is NaN
haversine(findspot, origo) ==
    IF findspot[1].nan \/ findspot[2].nan \/ origo[1].nan \/ origo[2].nan
    THEN NaN
    ELSE IF findspot[1].val >= origo[1].val
    THEN Num(1111951 * (findspot[1].val - origo[1].val))
    ELSE Num(1111951 * (origo[1].val - findspot[1].val))

\* add_distance: the distance when origo_LatLong is a string and the
\* distance is more than 10 km, NaN otherwise
add_distance(row) ==
    IF /\ ~row.origo_LatLong.nan
       /\ ~haversine(<<row.find_lat, row.find_long>>,
                     <<row.origo_lat, row.origo_long>>).nan
       /\ haversine(<<row.find_lat, row.find_long>>,
                    <<row.origo_lat, row.origo_long>>).val > 10 * 1000000
    THEN haversine(<<row.find_lat, row.find_long>>,
                   <<row.origo_lat, row.origo_long>>)
    ELSE NaN

\* calc_distance: the column distance, add_distance of every row
calc_distance(rows) ==
    [k \in 1..Len(rows) |-> ("distance" :> add_distance(rows[k])) @@ rows[k]]

(***************************************************************************)
(* The tables search_toponyms is applied to.  The points lie on the        *)
(* meridian of 3 degrees east.  A gazetteer row has the toponyms           *)
(* get_toponyms gives for its place names, and no toponyms when it has no  *)
(* place names (a row of no relevant period).                              *)
(***************************************************************************)
MaxPlaces == 2     \* most rows of an enumerated gazetteer
MaxRecords == 2    \* most rows of an enumerated table of inscriptions

Place(pid, title, placenames, lat, latlong) ==
    [pid |-> pid, path |-> pid, title |-> title, placenames |-> placenames,
     toponyms |-> IF placenames = None THEN NoStr
                  ELSE Str(get_toponyms(placenames).toponyms),
     reprLat |-> lat,
     reprLong |-> IF lat.nan THEN NaN ELSE Num(300),
     reprLatLong |-> latlong]

GazetteerRows ==
    {Place("/places/1", "Narbo", "Narbo, Narbona", Num(4318), Str("43.18,3.0")),
     Place("/places/2", "Narbona", "Narbona", NaN, NoStr),
     Place("/places/3", "Narbo", "Narbo", NaN, NoStr),
     Place("/places/4", "Narbo Martius", "Narbo", Num(4318), Str("43.18,3.0")),
     Place("/places/5", "aeaeum", "aeaeum", Num(4190), Str("41.9,3.0")),
     Place("/places/6", "Roma", None, Num(4190), Str("41.9,3.0"))}

\* An inscription of the table: its text and the latitude of its findspot
RecordInputs ==
    {[cleantext |-> Str("natus Narbensis"), find_lat |-> Num(4320)],
     [cleantext |-> Str("Narbensis Narbonensis"), find_lat |-> Num(4190)],
     [cleantext |-> Str("Ostiensis"), find_lat |-> NaN],
     [cleantext |-> NoStr, find_lat |-> Num(4190)]}

\* The table of the inscriptions `rows`, the k-th with the edcs-id of
\* number k, read from a file that has a column Index (`index`) or has none
Inscriptions(rows, index) ==
    [k \in 1..Len(rows) |->
        [c \in {"edcs_id", "cleantext", "find_lat", "find_long", "migrant"}
                  \cup (IF index THEN {"Index"} ELSE {}) |->
            CASE c = "edcs_id" -> "EDCS-0000000" \o Char(DigitStr, k)
              [] c = "cleantext" -> rows[k].cleantext
              [] c = "find_lat" -> rows[k].find_lat
              [] c = "find_long" -> IF rows[k].find_lat.nan THEN NaN ELSE Num(300)
              [] c = "migrant" -> 0
              [] c = "Index" -> k - 1]]

(***************************************************************************)
(* SpecMigrants: find_migrants from search_toponyms on, then               *)
(* analyse_inscriptions as far as calc_distance.  search_toponyms gives    *)
(* the table of migrants; create_complete_db makes the master table of it  *)
(* and of the inscriptions that matched no toponym; the master table is    *)
(* saved, read back by open_database and given to calc_distance.           *)
(***************************************************************************)
InitMigrants ==
    /\ pc = "start"
    /\ \E n \in 1..MaxRecords : \E rows \in [1..n -> RecordInputs] :
          \E index \in BOOLEAN : edcs = Inscriptions(rows, index)
    /\ \E n \in 1..MaxPlaces : toponyms \in [1..n -> GazetteerRows]
    /\ migrants = <<>>
    /\ master = <<>>
    /\ raised = "none"
    /\ text = ""
    /\ cleaned = None
    /\ inscriptions = <<>>
    /\ all_inscriptions = <<>>
    /\ last_insc = <<>>
    /\ date_from = NaN
    /\ date_to = NaN
    /\ names = <<>>

SearchToponyms ==
    /\ pc = "start"
    /\ migrants' = search_toponyms(edcs, toponyms)
    /\ pc' = "searched"
    /\ UNCHANGED <<toponyms, edcs, master, names, raised, text, cleaned,
                   inscriptions, all_inscriptions, last_insc, date_from, date_to>>

\* find_migrants, lines 540-541: the call ends with the master table, or
\* with the exception create_complete_db raised
CreateCompleteDb ==
    /\ pc = "searched"
    /\ \E out \in {create_complete_db(edcs, migrants, at) :
                        at \in {"loc", "InvalidIndexError"}} :
          /\ master' = out.master
          /\ raised' = out.raised
          /\ pc' = IF out.raised = "none" THEN "complete" ELSE "done"
    /\ UNCHANGED <<toponyms, edcs, migrants, names, text, cleaned,
                   inscriptions, all_inscriptions, last_insc, date_from, date_to>>

\* analyse_inscriptions, lines 352-354: the master table read back and its
\* column distance; KeyError, and no column, when the table has no column
\* origo_LatLong for add_distance to read
CalcDistance ==
    /\ pc = "complete"
    /\ IF \E k \in 1..Len(master) : "origo_LatLong" \notin DOMAIN master[k]
       THEN /\ master' = open_database(master)
            /\ raised' = "KeyError"
       ELSE /\ master' = calc_distance(open_database(master))
            /\ raised' = "none"
    /\ pc' = "done"
    /\ UNCHANGED <<toponyms, edcs, migrants, names, text, cleaned,
                   inscriptions, all_inscriptions, last_insc, date_from, date_to>>

NextMigrants == SearchToponyms \/ CreateCompleteDb \/ CalcDistance

SpecMigrants == InitMigrants /\ [][NextMigrants]_vars

(***************************************************************************)
(* Claims about get_cleantext, checked under SpecClean.                    *)
(***************************************************************************)

\* The number of times character c occurs in s
RECURSIVE CountChar(_, _)
CountChar(s, c) ==
    IF s = "" THEN 0
    ELSE (IF Char(s, 0) = c THEN 1 ELSE 0) + CountChar(SliceFrom(s, 1), c)

\* What the final pass is specified to leave of a text without placeholders:
\* its letters and its whitespace, collapsed and trimmed
RECURSIVE LettersAndSpaces(_)
LettersAndSpaces(s) ==
    IF s = "" THEN ""
    ELSE (IF IsAlpha(Char(s, 0)) \/ IsSpace(Char(s, 0)) THEN Char(s, 0) ELSE "")
         \o LettersAndSpaces(SliceFrom(s, 1))
Normal(s) == JoinSplit(LettersAndSpaces(s))

NoneOf(s, cs) == \A c \in cs : CountChar(s, c) = 0

\* A text with '=' and exactly one '<', closed by a '>' after it, and no
\* other kind of markup: the reading of "span" and "outside" is not in doubt
OneClosedSpan(t) ==
    /\ CountChar(t, "=") > 0
    /\ CountChar(t, "<") = 1
    /\ Find(t, ">", Find(t, "<", 0)) # -1
    /\ NoneOf(t, {"{", "}", "[", "]"})

\* The outputs C7 allows for such a text: the text before the span, the
\* lowercased reading in front of the separator, the text after the span.  A
\* span without a separator inside it may resolve to nothing or to its body.
SpanResolutions(t) ==
    LET o == Find(t, "<", 0)
        c == Find(t, ">", o)
        e == Find(t, "=", o)
        body == Slice(t, o + 1, c)
        readings == IF e # -1 /\ e < c
                    THEN {Lower(Slice(t, o + 1, e))}
                    ELSE {"", body, Lower(body)}
    IN  {Normal(Slice(t, 0, o) \o r \o SliceFrom(t, c + 1)) : r \in readings}

\* C7 (as claimed): for a text containing '=', the correction span from '<'
\* to the first '>' after it is replaced by the lowercased text between '<'
\* and '=', and every character outside the span is copied exactly once.
C7_SpanReplacedOutsideCopiedOnce ==
    (pc = "done" /\ OneClosedSpan(text)) => cleaned \in SpanResolutions(text)

\* A text whose only markup is one '{' that no '}' follows
UnclosedCurly(t) ==
    /\ CountChar(t, "{") = 1
    /\ NoneOf(t, {"}", "<", ">", "[", "]"})

\* A text whose only markup is one '<', with a '=' after it and no '>'
UnclosedAngle(t) ==
    /\ CountChar(t, "<") = 1
    /\ Find(t, "=", Find(t, "<", 0)) # -1
    /\ NoneOf(t, {">", "{", "}", "[", "]"})

\* C8 (as claimed): an opening marker without a closing marker makes the rest
\* of the string the span body: the text before the marker appears once and
\* nothing after the marker appears except the span's resolved reading.
C8_UnmatchedMarkerSpansToEnd ==
    /\ (pc = "done" /\ UnclosedCurly(text))
          => cleaned = Normal(Slice(text, 0, Find(text, "{", 0)))
    /\ (pc = "done" /\ UnclosedAngle(text))
          => LET o == Find(text, "<", 0)
                 e == Find(text, "=", o)
             IN  cleaned = Normal(Slice(text, 0, o) \o Lower(Slice(text, o + 1, e)))

\* C9 (as claimed): a placeholder "[d]" outside every span is retained
\* verbatim wherever it stands in the text, its very end included.
C9_PlaceholderRetainedAnywhere ==
    (/\ pc = "done"
     /\ NoneOf(text, {"<", ">", "{", "}", "="})
     /\ Contains(text, "[3]"))
        => Contains(cleaned, "[3]")

\* The text holds a valid placeholder: '[', one digit, ']'
HasPlaceholder(t) ==
    \E i \in 0..(Len(t) - 3) :
        Char(t, i) = "[" /\ IsNumeric(Char(t, i + 1)) /\ Char(t, i + 2) = "]"

\* C10 (as claimed): every character of the output is a letter, a single
\* space or part of a valid placeholder of the input; the output has no
\* leading, trailing or doubled whitespace.
C10_OnlyLettersSpacesPlaceholders ==
    pc = "done" =>
        /\ \A i \in 0..(Len(cleaned) - 1) :
              LET c == Char(cleaned, i)
              IN  \/ IsAlpha(c)
                  \/ c = " "
                  \/ (c \in {"[", "]"} \cup DigitSet) /\ HasPlaceholder(text)
        /\ cleaned = JoinSplit(cleaned)

(***************************************************************************)
(* Claims about ignore_duplicates, checked under SpecDup.                  *)
(***************************************************************************)
Returned == pc = "done" /\ raised = "none"

\* The rows of the group of row r: those sharing its edcs-id
Group(tab, r) == {q \in 1..Len(tab) : tab[q].id = tab[r].id}
HasMigrant(tab, g) == \E q \in g : tab[q].migrant = 1

\* The rows of group g whose distance is the least distance of the group
Nearest(tab, g) ==
    {q \in g : /\ ~tab[q].distance.nan
               /\ \A o \in g : ~FloatLt(tab[o].distance, tab[q].distance)}

\* C1 (as claimed): when ignore_duplicates returns, in every group with a
\* migrant-flagged member the member with the minimum distance has ignore = 0
\* and every other member of the group has ignore = 1.
C1_NearestKeptOthersIgnored ==
    Returned =>
        \A r \in 1..Len(edcs) :
            LET g == Group(edcs, r)
                near == Nearest(edcs, g)
            IN  (HasMigrant(edcs, g) /\ near # {}) =>
                    /\ \E q \in near : edcs[q].ignore = 0
                    /\ \A q \in g \ near : edcs[q].ignore = 1

\* C2 (as claimed): when ignore_duplicates returns, no record of a group
\* without a migrant-flagged member has ignore = 1.
C2_GroupsWithoutMigrantUntouched ==
    Returned =>
        \A r \in 1..Len(edcs) :
            ~HasMigrant(edcs, Group(edcs, r)) => edcs[r].ignore = 0

(***************************************************************************)
(* Claims about get_insc_dict, checked under SpecExtract.                  *)
(***************************************************************************)

\* The index of the identifier: the first fragment starting with "EDCS-",
\* -1 when there is none
IdIndex(insc) ==
    LET ids == {i \in 0..(Len(insc) - 1) : HasPrefix(Item(insc, i), "EDCS-")}
    IN  IF ids = {} THEN -1 ELSE CHOOSE i \in ids : \A j \in ids : i <= j

ManyDates(k) == k >= 5 /\ k % 2 = 1

\* The date tokens in front of an identifier at an odd index k >= 5, parsed
DatesBefore(insc, k) == ParseNums(Dedup(NumsFrom(insc, 1, k)), 1, FALSE, <<>>)

\* The two date fragments in front of an identifier at index 3, parsed
FromOfThree(insc) == PyInt(JoinSplit(Item(insc, 1)))
ToOfThree(insc) == PyInt(JoinSplit(Item(insc, 2)))

\* A date token of the list fails to parse as an integer
DateParseFailure(insc) ==
    LET k == IdIndex(insc)
    IN  \/ k = 3 /\ (~FromOfThree(insc).ok \/ ~ToOfThree(insc).ok)
        \/ ManyDates(k) /\ DatesBefore(insc, k).error

\* The 0-based indices of the fragments matching a vocabulary: a fragment
\* that is neither the identifier nor a '<!--' comment and is a term of the
\* vocabulary or a semicolon-separated fragment with a part that is a term
\* of it
TermIndices(insc, terms) ==
    {i \in 0..(Len(insc) - 1) :
        /\ i # IdIndex(insc)
        /\ ~HasPrefix(Item(insc, i), "<!--")
        /\ \/ Item(insc, i) \in terms
           \/ /\ Contains(Item(insc, i), ";")
              /\ \E n \in 1..Len(Split(Item(insc, i), {";"})) :
                    Split(Item(insc, i), {";"})[n] \in terms}

\* The 0-based indices of the fragments the first loop takes for keywords
KeywordIndices(insc) == TermIndices(insc, keyword_list)

\* What the first loop records for a matching fragment: the fragment, or the
\* parts of a semicolon-separated fragment joined by ", "
RecordedAs(frag) ==
    IF Contains(frag, ";") THEN Join(Split(frag, {";"}), ", ") ELSE frag

ExampleList == <<"PubX", "120", "180", "EDCS-000001", "someword", "vir">>
ExampleListJoined ==
    <<"PubX", "120", "180", "EDCS-000001", "someword", "viri;leges">>

\* C3 (as claimed): get_insc_dict raises no exception on any batch of
\* non-empty fragment lists; every list is skipped or yields a record and
\* the lists after it are still processed.
C3_NoExceptionOnAnyBatch ==
    /\ raised = "none"
    /\ \A n \in 1..Len(last_insc) :
          last_insc[n].outcome \in {"skipped", "discarded", "added"}

\* C4 (as claimed): with the identifier at an odd index k >= 5 and every
\* digit-bearing fragment in front of it parsing as an integer, the emitted
\* record has publication = fragment[0], time_from = the minimum and
\* time_to = the maximum of the parsed values.
C4_MinMaxOfManyDates ==
    \A n \in 1..Len(all_inscriptions) :
        LET rec == all_inscriptions[n]
            k == IdIndex(rec.dump)
            parsed == DatesBefore(rec.dump, k)
        IN  (ManyDates(k) /\ ~parsed.error /\ parsed.dates # <<>>) =>
                /\ rec.publication = Item(rec.dump, 0)
                /\ rec.time_from = Num(MinOf(parsed.dates))
                /\ rec.time_to = Num(MaxOf(parsed.dates))

\* C5 (corrected): every record emitted for a list with the identifier at
\* index 3 whose fragments 1 and 2 parse as integers has publication =
\* fragment[0], time_from = int(fragment[1]), time_to = int(fragment[2]), and
\* the keyword fragment following the text fragment is recorded as keywords
\* (a semicolon-separated fragment with its parts joined by ", ").  For
\* ["PubX","120","180","EDCS-000001","someword","vir"] the record has
\* publication "PubX", time_from 120, time_to 180 and keywords "n/a" ("vir"
\* is no term of the keyword vocabulary).
C5_ThreeFragmentsBeforeIdentifier ==
    \A n \in 1..Len(all_inscriptions) :
        LET rec == all_inscriptions[n]
            insc == rec.dump
            K == KeywordIndices(insc)
        IN  /\ (/\ IdIndex(insc) = 3
                /\ FromOfThree(insc).ok
                /\ ToOfThree(insc).ok) =>
                    /\ rec.publication = Item(insc, 0)
                    /\ rec.time_from = Num(FromOfThree(insc).val)
                    /\ rec.time_to = Num(ToOfThree(insc).val)
                    /\ K # {} => \E i \in K :
                                    /\ rec.keywords = RecordedAs(Item(insc, i))
                                    /\ rec.text = Item(insc, i - 1)
            /\ insc = ExampleList =>
                    /\ rec.publication = "PubX"
                    /\ rec.time_from = Num(120)
                    /\ rec.time_to = Num(180)
                    /\ rec.keywords = "n/a"

\* C5 witness: the call has returned records for the example list and for
\* the list with the semicolon-separated keyword fragment "viri;leges" in
\* the place of "vir", recorded as "viri, leges" behind the text "someword"
C5_ExampleRecordsEmitted ==
    /\ pc = "done"
    /\ \E n \in 1..Len(all_inscriptions) : all_inscriptions[n].dump = ExampleList
    /\ \E n \in 1..Len(all_inscriptions) :
          /\ all_inscriptions[n].dump = ExampleListJoined
          /\ all_inscriptions[n].keywords = "viri, leges"
          /\ all_inscriptions[n].text = "someword"

\* C5 (as claimed): for ["PubX","120","180","EDCS-000001","someword","vir"]
\* the record has publication "PubX", time_from 120, time_to 180 and
\* keywords "vir".
C5_ExampleKeywordsVir ==
    \A n \in 1..Len(all_inscriptions) :
        LET rec == all_inscriptions[n]
        IN  rec.dump = ExampleList =>
                /\ rec.publication = "PubX"
                /\ rec.time_from = Num(120)
                /\ rec.time_to = Num(180)
                /\ rec.keywords = "vir"

\* C6 (as claimed): whenever a date token fails to parse as an integer
\* (identifier at index 3, or at an odd index >= 5), the record is still
\* emitted and its publication is "error".
C6_ParseFailureGivesErrorPublication ==
    /\ \A n \in 1..Len(last_insc) :
          DateParseFailure(last_insc[n].insc) => last_insc[n].outcome = "added"
    /\ \A n \in 1..Len(all_inscriptions) :
          DateParseFailure(all_inscriptions[n].dump)
              => all_inscriptions[n].publication = "error"

(***************************************************************************)
(* Further claims about get_cleantext, checked under SpecClean.            *)
(***************************************************************************)

\* C11 (as claimed): get_cleantext is idempotent on every text without span
\* markers, placeholders "[d]" allowed anywhere: cleaning the cleaned text
\* again changes nothing.
C11_CleantextIdempotent ==
    (pc = "done" /\ NoneOf(text, {"<", ">", "{", "}", "="}))
        => get_cleantext(cleaned) = cleaned

\* Every '{' of the text has a '}' behind it
EveryCurlyClosed(t) ==
    \A i \in 0..(Len(t) - 1) : Char(t, i) = "{" => Find(t, "}", i) # -1

\* The text outside the superficial-letter spans, read from the left: a span
\* runs from a '{' to the first '}' behind it
RECURSIVE OutsideCurly(_)
OutsideCurly(t) ==
    IF t = "" THEN ""
    ELSE IF Char(t, 0) = "{"
    THEN (IF Find(t, "}", 0) = -1 THEN ""
          ELSE OutsideCurly(SliceFrom(t, Find(t, "}", 0) + 1)))
    ELSE Char(t, 0) \o OutsideCurly(SliceFrom(t, 1))

\* C12 (as claimed): for every text in which each '{' is followed by a '}',
\* get_cleantext removes every superficial-letter span with its delimiters
\* and keeps the text outside the spans once and in order, for any number of
\* spans; "ab{cd}ef" gives "abef".  The text outside the spans is what the
\* final pass leaves of it; where it holds a correction span, closed or
\* running to the end of the text, it is kept once when the output is one
\* C7 and C8 allow for it.
C12_SuperficialSpansRemoved ==
    (pc = "done" /\ EveryCurlyClosed(text)) =>
        /\ NoneOf(text, {"<"})
              => cleaned = JoinSplit(FilterFrom(OutsideCurly(text), 0))
        /\ OneClosedSpan(OutsideCurly(text))
              => cleaned \in SpanResolutions(OutsideCurly(text))
        /\ UnclosedAngle(OutsideCurly(text))
              => cleaned = Normal(Slice(OutsideCurly(text), 0,
                                        Find(OutsideCurly(text), "<", 0))
                                  \o Lower(Slice(OutsideCurly(text),
                                                 Find(OutsideCurly(text), "<", 0) + 1,
                                                 Find(OutsideCurly(text), "=", 0))))
        /\ text = "ab{cd}ef" => cleaned = "abef"

(***************************************************************************)
(* Further claims about get_insc_dict, checked under SpecExtract.          *)
(***************************************************************************)

\* The 0-based indices of the '<!--' comment fragments
CommentIndices(insc) ==
    {i \in 0..(Len(insc) - 1) : HasPrefix(Item(insc, i), "<!--")}

FirstOf(S) == CHOOSE i \in S : \A j \in S : i <= j

\* The index recorded for a kind is the first of the matching indices
RecordsFirst(index, S) == S # {} => index = Num(FirstOf(S))

\* C13 (as claimed): for each kind of classified fragment (keyword term,
\* material term, '<!--' comment) the index recorded by get_insc_dict is that
\* of the first fragment of the list matching the kind, also when later
\* fragments match it.
C13_FirstMatchOfEachKind ==
    \A n \in 1..Len(last_insc) :
        LET l == last_insc[n]
        IN  l.outcome # "skipped" =>
                /\ RecordsFirst(l.keywords_i, TermIndices(l.insc, keyword_list))
                /\ RecordsFirst(l.material_i, TermIndices(l.insc, material_list))
                /\ RecordsFirst(l.place_i, CommentIndices(l.insc))

\* The 0-based index of the text fragment by the priority of Step 5, from the
\* matches the first loop recorded
SelectedTextIndex(l) ==
    IF ~l.keywords_i.nan THEN l.keywords_i.val - 1
    ELSE IF ~l.material_i.nan THEN l.material_i.val - 1
    ELSE IF ~l.place_i.nan THEN l.place_i.val + 2
    ELSE Len(l.insc) - 1

\* The record of the last processed list, when it yielded one
LastRecord == all_inscriptions[Len(all_inscriptions)]

\* C14 (as claimed): for every list with an identifier the text fragment is
\* the fragment before the keyword match, else the fragment before the
\* material match, else the fragment two positions after the comment
\* fragment, else the final fragment; cleantext is get_cleantext of exactly
\* that fragment.
C14_TextFragmentByPriority ==
    \A n \in 1..Len(last_insc) :
        LET l == last_insc[n]
            i == SelectedTextIndex(l)
        IN  l.outcome \notin {"skipped", "discarded"} =>
                /\ l.outcome = "added"
                /\ i \in 0..(Len(l.insc) - 1)
                /\ LastRecord.text = l.insc[i + 1]
                /\ LastRecord.cleantext = get_cleantext(l.insc[i + 1])

\* The fragment occurs at one index of the list only
OccursOnce(insc, frag) ==
    Cardinality({i \in 1..Len(insc) : insc[i] = frag}) = 1

\* C15 (as claimed): with no comment fragment in the list, the record's
\* findspot is the fragment immediately preceding the selected text fragment
\* whenever that fragment occurs nowhere else in the list and is neither "?"
\* nor empty, whichever rule selected the text, the final-fragment fallback
\* included.
C15_FindspotPrecedesText ==
    \A n \in 1..Len(last_insc) :
        LET l == last_insc[n]
            i == SelectedTextIndex(l)
        IN  (/\ l.outcome = "added"
             /\ l.place_i.nan
             /\ i >= 1
             /\ OccursOnce(l.insc, l.insc[i])
             /\ l.insc[i] \notin {"?", ""})
                => LastRecord.findspot = l.insc[i]

\* A date was found among the fragments by a row of the rule table
DatesFound(insc) ==
    LET k == IdIndex(insc)
    IN  \/ k = 3 /\ (FromOfThree(insc).ok \/ ToOfThree(insc).ok)
        \/ /\ ManyDates(k)
           /\ ~DatesBefore(insc, k).error
           /\ DatesBefore(insc, k).dates # <<>>

\* C16 (as claimed): a list in which dates were found by any row of the rule
\* table is never discarded as a comment-only reference.
C16_DatedListNeverDiscarded ==
    \A n \in 1..Len(last_insc) :
        last_insc[n].outcome = "discarded" => ~DatesFound(last_insc[n].insc)

\* The identifier's index matches no row of the rule table
NoRule(k) == k >= 0 /\ k # 1 /\ k # 3 /\ ~ManyDates(k)

\* C17 (as claimed): when the identifier's index matches no rule of the
\* table, the list still yields a record and the record has publication
\* "error".
C17_IrregularListKeptAsError ==
    \A n \in 1..Len(last_insc) :
        NoRule(IdIndex(last_insc[n].insc)) =>
            /\ last_insc[n].outcome = "added"
            /\ LastRecord.publication = "error"

(***************************************************************************)
(* Claims about get_toponyms, checked under SpecToponyms.                  *)
(***************************************************************************)

\* The stems of the further candidates of a word: one per vowel standing
\* immediately in front of position i, each a character shorter, down to the
\* first consonant or the start of the word
RECURSIVE FurtherStems(_, _)
FurtherStems(word, i) ==
    IF i >= 1 /\ Char(word, i - 1) \in {"a", "e", "i", "o", "u"}
    THEN <<Slice(word, 0, i - 1)>> \o FurtherStems(word, i - 1)
    ELSE <<>>

\* The stems C18 describes for a word whose last vowel stands at i
StemsOfWord(word, i) ==
    IF i > 2 THEN <<Slice(word, 0, i)>> \o FurtherStems(word, i) ELSE <<>>

RECURSIVE CandidatesFrom(_, _)
CandidatesFrom(words, n) ==
    IF n > Len(words) THEN <<>>
    ELSE [k \in 1..Len(StemsOfWord(words[n], LastVowel(words[n]))) |->
              StemsOfWord(words[n], LastVowel(words[n]))[k] \o "ensis"]
         \o CandidatesFrom(words, n + 1)

\* C18 (as claimed): for each word of a place name, with i the index of its
\* last vowel, get_toponyms emits word[0..i) + "ensis" if i > 2, then one
\* further candidate per immediately preceding vowel, the stem a character
\* shorter each time, and nothing if i <= 2 or the word has no vowel; "Narbo"
\* yields exactly "Narbensis".
C18_CandidatesOfEveryWord ==
    pc = "done" =>
        /\ raised = "none"
        /\ names.toponym_list = CandidatesFrom(Words(names.placenames), 1)
        /\ names.placenames = "Narbo" => names.toponym_list = <<"Narbensis">>

\* C19 (as claimed): every candidate get_toponyms emits has a stem, the part
\* in front of "ensis", of more than 2 characters, the further candidates
\* included.
C19_StemLongerThanTwo ==
    (pc = "done" /\ raised = "none") =>
        \A k \in 1..Len(names.toponym_list) :
            Len(names.toponym_list[k]) - Len("ensis") > 2

(***************************************************************************)
(* Claims about get_place_names, checked under SpecPlaceNames.             *)
(***************************************************************************)

\* C20 (as claimed): get_place_names splits every cleaned name variant on
\* both ',' and '/': no individual place name it produces contains either
\* separator, whether or not the variant contains a comma.
C20_NoSeparatorInPlaceName ==
    pc = "done" =>
        \A name \in names.place_names :
            ~Contains(name, ",") /\ ~Contains(name, "/")

(***************************************************************************)
(* Claims about search_toponyms and add_distance, checked under            *)
(* SpecMigrants.                                                           *)
(***************************************************************************)

\* The columns of a row: the row without its label
Columns(row) == [c \in DOMAIN row \ {"label"} |-> row[c]]

\* Some candidate of the gazetteer row occurs, as a plain substring, in the
\* text of the inscription
SomeCandidateOccurs(insc, place) ==
    /\ ~place.toponyms.nan
    /\ ~insc.cleantext.nan
    /\ \E k \in 1..Len(Candidates(place.toponyms.s)) :
          Contains(insc.cleantext.s, Candidates(place.toponyms.s)[k])

\* C21 (as claimed): search_toponyms emits a row for inscription r and
\* place p exactly when some candidate of p occurs as a plain substring of
\* r's cleantext; every emitted row is a copy of an inscription with the id
\* and coordinates of a place and migrant = 1; "natus Narbensis" with the
\* single candidate "Narbensis" of one place gives exactly one row, of that
\* place.
C21_RowExactlyWhenCandidateOccurs ==
    pc = "searched" =>
        /\ \A i \in 1..Len(edcs), idx \in 1..Len(toponyms) :
              SomeCandidateOccurs(edcs[i], toponyms[idx]) <=>
                  \E m \in 1..Len(migrants) :
                      Columns(migrants[m]) = MigrantRow(edcs[i], toponyms[idx])
        /\ \A m \in 1..Len(migrants) :
              \E i \in 1..Len(edcs), idx \in 1..Len(toponyms) :
                  Columns(migrants[m]) = MigrantRow(edcs[i], toponyms[idx])
        /\ ( /\ Len(edcs) = 1 /\ edcs[1].cleantext = Str("natus Narbensis")
             /\ Len(toponyms) = 1 /\ toponyms[1].toponyms = Str("Narbensis") )
           => ( Len(migrants) = 1 /\ migrants[1].pid = Str(toponyms[1].pid) )

\* Some candidate of at least `least` characters of the gazetteer row
\* occurs in the text of the inscription
SomeLongCandidateOccurs(insc, place, least) ==
    /\ ~place.toponyms.nan
    /\ ~insc.cleantext.nan
    /\ \E k \in 1..Len(Candidates(place.toponyms.s)) :
          /\ Len(Candidates(place.toponyms.s)[k]) >= least
          /\ Contains(insc.cleantext.s, Candidates(place.toponyms.s)[k])

\* C22 (as claimed): a candidate of fewer than 6 characters produces no row,
\* also in a gazetteer entry with other, longer candidates: every row of
\* migrants is the row of an inscription and a place one of whose
\* candidates of 6 characters or more occurs in the inscription's text.
C22_NoRowFromShortCandidate ==
    pc = "searched" =>
        \A m \in 1..Len(migrants) :
            \E i \in 1..Len(edcs), idx \in 1..Len(toponyms) :
                /\ Columns(migrants[m]) = MigrantRow(edcs[i], toponyms[idx])
                /\ SomeLongCandidateOccurs(edcs[i], toponyms[idx], 6)

\* C23: in the table search_toponyms returns no two rows have the same
\* (edcs-id, origo_LatLong) pair, also when an inscription matches several
\* candidates of one place or one candidate several times.
C23_NoTwoRowsOfOnePair ==
    pc = "searched" =>
        \A m, n \in 1..Len(migrants) :
            ( /\ migrants[m].edcs_id = migrants[n].edcs_id
              /\ migrants[m].origo_LatLong = migrants[n].origo_LatLong ) => m = n

\* C23 (witness): the matches collected held more rows than the table
\* returned, which is not empty: a duplicate was dropped.
C23_DuplicateDropped ==
    /\ pc = "searched"
    /\ Len(migrants) > 0
    /\ Len(MatchesFrom(edcs, toponyms, 1)) > Len(migrants)

\* The rows of a table as (edcs-id, pid, origo_LatLong) triples
Triples(rows) ==
    {<<rows[m].edcs_id, rows[m].pid, rows[m].origo_LatLong>> : m \in 1..Len(rows)}

\* The table `rows` read in the order q
Reordered(rows, q) == [k \in 1..Len(rows) |-> rows[q[k]]]

\* C24 (as claimed): the set of rows, as (edcs-id, pid, origo_LatLong),
\* left after collecting all matches and dropping duplicates is the same
\* for every order in which the places and the inscriptions are gone
\* through, also when distinct places have equal or missing coordinates.
C24_SameRowsInEveryOrder ==
    pc = "searched" =>
        \A qe \in Permutations(1..Len(edcs)), qt \in Permutations(1..Len(toponyms)) :
            Triples(search_toponyms(Reordered(edcs, qe), Reordered(toponyms, qt)))
                = Triples(migrants)

\* C25 (as claimed): every row flagged migrant = 1 has a computed distance
\* between findspot and origin of more than 10 km: in the master table
\* calc_distance has gone through, no row is flagged migrant while its
\* distance is 10 km or less, or absent.
C25_MigrantFartherThanThreshold ==
    (pc = "done" /\ raised = "none") =>
        \A m \in 1..Len(master) :
            master[m].migrant = 1 =>
                /\ ~master[m].distance.nan
                /\ master[m].distance.val > 10 * 1000000

(***************************************************************************)
(* Further claims about ignore_duplicates, checked under SpecDup.          *)
(***************************************************************************)

\* The rows of `out` are the rows of `tab`, whatever their order and their
\* ignore flag: as many rows, and every row of tab once in out with its
\* label, edcs-id, migrant flag and distance
SameRecords(tab, out) ==
    /\ Len(out) = Len(tab)
    /\ \A r \in 1..Len(tab) :
          Cardinality({q \in 1..Len(out) :
              /\ out[q].label = tab[r].label
              /\ out[q].id = tab[r].id
              /\ out[q].migrant = tab[r].migrant
              /\ out[q].distance = tab[r].distance
              /\ out[q].ignore \in {0, 1}}) = 1

\* C26: a call of ignore_duplicates that returns deletes no record and adds
\* none: the table it returns holds exactly the records of the table it was
\* given, which differ only in row order and in the ignore flag.
C26_NoRecordDeletedOrAdded ==
    [][(pc' = "done" /\ raised' = "none") => SameRecords(edcs, edcs')]_vars

\* C26 (witness): a call returned a table whose rows were reordered and in
\* which a row is flagged.
C26_ReorderedAndFlagged ==
    /\ Returned
    /\ \E r \in 1..Len(edcs) : edcs[r].label # r - 1
    /\ \E r \in 1..Len(edcs) : edcs[r].ignore = 1

\* C29 (as claimed): ignore_duplicates ends without raising on every table,
\* and its backward scan, which starts at position idx - 1 of a
\* migrant-flagged row, never reads a position in front of the first row (a
\* negative position, which .iloc counts from the end of the table).
C29_ScansStayInsideTable ==
    pc = "done" =>
        /\ raised = "none"
        /\ \A r \in 1..Len(edcs) : edcs[r].migrant = 1 => edcs[r].label - 1 >= 0

(***************************************************************************)
(* Further claims about get_insc_dict, checked under SpecExtract.          *)
(***************************************************************************)

\* The records of the lists from the n-th on, each list processed as the
\* first of a call, with no local bound by an iteration before it
RECURSIVE RecordsAlone(_, _)
RecordsAlone(lists, n) ==
    IF n > Len(lists) THEN <<>>
    ELSE Iteration(lists[n], Unbound).record \o RecordsAlone(lists, n + 1)

\* C27: the record get_insc_dict produces for a fragment list depends only
\* on that list: whatever lists were processed before it, in whatever order,
\* and whatever they left in the locals, the records added so far are those
\* each list gives when it is processed first.
C27_RecordDependsOnListOnly ==
    all_inscriptions = RecordsAlone(inscriptions, 1)

\* C27 (witness): the first list left its minimum and maximum date in
\* date_from and date_to and a keyword in keywords; the list processed after
\* it, with nothing but a publication in front of the identifier and no
\* keyword fragment, gave a record without dates and without keywords.
C27_RecordAfterDatedList ==
    /\ Len(inscriptions) = 2
    /\ Len(all_inscriptions) = 2
    /\ all_inscriptions[1].keywords # "n/a"
    /\ ManyDates(IdIndex(inscriptions[1]))
    /\ IdIndex(inscriptions[2]) = 1
    /\ ~last_insc[1].date_from.nan
    /\ last_insc[1].keywords = "n/a"
    /\ all_inscriptions[2].keywords = "n/a"
    /\ all_inscriptions[2].time_from.nan

(***************************************************************************)
(* Claims about no_tags and no_brackets, checked under SpecPlaceNames.     *)
(***************************************************************************)

\* The argument get_place_names passes to no_brackets for the row at hand
BracketsArgument == Replace(no_tags(names.nameTransliterated).elem, "?", "")

\* Every '(' of s has a ')' behind it and no group stands inside another
RECURSIVE GroupsClosedFrom(_, _, _)
GroupsClosedFrom(s, i, open) ==
    IF i >= Len(s) THEN ~open
    ELSE IF Char(s, i) = "(" THEN ~open /\ GroupsClosedFrom(s, i + 1, TRUE)
    ELSE IF Char(s, i) = ")" THEN open /\ GroupsClosedFrom(s, i + 1, FALSE)
    ELSE GroupsClosedFrom(s, i + 1, open)
GroupsClosed(s) == GroupsClosedFrom(s, 0, FALSE)

\* s is one parenthesised word and nothing else
WholeWordGroup(s) ==
    /\ Len(s) > 2
    /\ Char(s, 0) = "("
    /\ Find(s, ")", 0) = Len(s) - 1
    /\ CountOf(s, "(") = 1
    /\ ~Contains(s, " ")

\* C28 (as claimed): no_brackets resolves every parenthesised group of a
\* name whose groups are closed: the string it returns contains no '(' and
\* no ')', also for a word with more than one group, and a name that is one
\* parenthesised word, the group standing at the very start of the string,
\* is deleted.
C28_EveryGroupResolved ==
    (pc = "done" /\ relevant(names.timePeriods) /\ GroupsClosed(BracketsArgument)) =>
        /\ ~Contains(no_brackets(BracketsArgument), "(")
        /\ ~Contains(no_brackets(BracketsArgument), ")")
        /\ WholeWordGroup(BracketsArgument) =>
               Strip(no_brackets(BracketsArgument)) = ""

\* C30 (as claimed): no_tags terminates on every input string, also when a
\* '<' has no '>' behind it or the first '>' stands in front of the first
\* '<', and the string it returns contains no '<'.
C30_NoTagsTerminatesTagFree ==
    (pc # "start" /\ relevant(names.timePeriods)) =>
        /\ pc = "done"
        /\ ~Contains(no_tags(names.nameTransliterated).elem, "<")

====
